---- MODULE Spec2Model ----
(***************************************************************************)
(* babytracker-pro: the elapsed-time feeding timer (src/TimerContext.tsx), *)
(* the optimistic record store (src/App.tsx over the persistence adapter   *)
(* of src/services/auth.ts), the baby profile (src/BabyContext.tsx) and    *)
(* the pure functions of the views.                                        *)
(*                                                                         *)
(* The specifications of the module:                                       *)
(*   TimerSpec    - TimerProvider: start / pause / reset / side / display  *)
(*                  tick / visibility change / reload from localStorage.   *)
(*   RecSpec      - RecordsProvider and the reminder list: load on         *)
(*                  principal change, addRecord / updateRecord /           *)
(*                  deleteRecord with their asynchronous remote writes.    *)
(*   SaveSpec     - the home view's timer saved as a breast feed event.    *)
(*   ProfSpec     - BabyProvider: loadProfile and updateBabyProfile over   *)
(*                  getBabyProfile / saveBabyProfile.                      *)
(*   LoadLiveSpec - the loads of both providers under fair scheduling.     *)
(*   XlateSpec    - dbToFeedRecord after feedRecordToDb.                   *)
(*   StatsSpec    - StatsView.chartData.                                   *)
(*   AgeSpec      - GrowthView.ageLabel.                                   *)
(*   RecoverSpec  - a page load on a device whose storage is unparseable.  *)
(*   LoginSpec    - LoginModal: the form, its validation and the calls.    *)
(*   ListSpec     - the record list with chosen start times and reloads.   *)
(*   SignedInSpec - RecordsProvider from a signed-in, loaded principal.    *)
(*   RemFormSpec  - RemindersView: the delay inputs and handleSaveReminder.*)
(*   BreastSpec   - StatsView: the edit dialog of a breast feed.           *)
(* Time is Date.now() in milliseconds.                                     *)
(***************************************************************************)
EXTENDS Integers, Sequences, FiniteSets, TLC

\* ------------------------------------------------------------------ bounds
\* number of clock advances explored
MaxTicks == 4
\* number of start / pause / reset calls recorded in the call history
MaxLog == 4
\* cap of the renderTrigger counter
MaxRender == 1

\* Math.floor(ms / 1000): milliseconds per second
MsPerSec == 1000
\* granularity of the modelled clock: half a second, so that run segments
\* that are not whole seconds occur
ClockStep == MsPerSec \div 2

\* ------------------------------------------------------------- timer state
VARIABLES
    now,             \* Date.now()
    isRunning,       \* useState: isRunning
    startTimestamp,  \* useState: startTimestamp (Null or <<ms>>)
    pausedSeconds,   \* useState: pausedSeconds (the accumulated seconds)
    selectedSide,    \* useState: selectedSide
    renderTrigger,   \* useState: renderTrigger
    elapsedSeconds,  \* the value computed by the last render (context value)
    visible,         \* document.visibilityState = 'visible'
    timerStorage,    \* localStorage item 'timerState'
    rehydrated,      \* history: the fields come from storage, unchanged since
    callLog          \* history: the startTimer/pauseTimer/resetTimer calls made

timerVars == <<now, isRunning, startTimestamp, pausedSeconds, selectedSide,
               renderTrigger, elapsedSeconds, visible, timerStorage, rehydrated,
               callLog>>

VARIABLES
    configured,   \* isSupabaseConfigured(): fixed when the process starts
    user,         \* AuthProvider: useState user (the current principal)
    session,      \* the identity provider's session / the stored local user
    records,      \* RecordsProvider: useState records
    isLoading,    \* RecordsProvider: useState isLoading
    feedTable,    \* remote table feed_records
    feedStore,    \* localStorage item 'babytracker_feed_records'
    loads,        \* getFeedRecords calls in flight
    creates,      \* createFeedRecord calls in flight
    updates,      \* updateFeedRecord calls in flight
    deletes,      \* deleteFeedRecord calls in flight
    nextUuid,     \* gen_random_uuid(): number of ids handed out so far
    reminderList, \* RemindersView: useState reminderList
    remTable,     \* remote table reminders
    remStore,     \* localStorage item 'babytracker_reminders'
    remMounted,   \* RemindersView is mounted (the route is /reminders)
    remLoads,     \* getReminders calls in flight
    remCreates,   \* createReminder calls in flight
    remDeletes,   \* deleteReminder calls in flight
    rems,         \* history: number of handleSaveReminder calls
    edits,        \* history: number of updateRecord / deleteRecord calls
    adds,         \* history: number of addRecord calls
    ops           \* history: number of calls made so far

VARIABLES
    babyName,     \* BabyProvider: useState babyName
    birthDate,    \* BabyProvider: useState birthDate
    profLoading,  \* BabyProvider: useState isLoading
    profTable,    \* remote table baby_profiles
    profStore,    \* localStorage item 'babytracker_baby_profile'
    profLoads,    \* loadProfile calls in flight
    profSaves     \* updateBabyProfile calls in flight

profVars == <<babyName, birthDate, profLoading, profTable, profStore,
              profLoads, profSaves>>

VARIABLES
    arg,          \* the argument a pure function of the views is applied to
    res           \* its result, once computed

VARIABLES
    form,         \* useState of the form of the view under study
    authCalls     \* signIn / signUp calls the login form has made

\* the forms of the views are left alone
FormsIdle == UNCHANGED <<form, authCalls>>

\* no pure function is being evaluated and no form is being filled in
PureIdle == FormsIdle /\ UNCHANGED <<arg, res>>

\* the profile does not move
ProfIdle == PureIdle /\ UNCHANGED profVars

recVars == <<now, configured, user, session, records, isLoading, feedTable,
             feedStore, loads, creates, updates, deletes, nextUuid,
             reminderList, remTable, remStore, remMounted, remLoads, remCreates,
             remDeletes, rems, edits,
             adds, ops>>

vars == <<now, isRunning, startTimestamp, pausedSeconds, selectedSide,
          renderTrigger, elapsedSeconds, visible, timerStorage, rehydrated,
          callLog, configured, user, session, records, isLoading, feedTable,
          feedStore, loads, creates, updates, deletes, nextUuid,
          reminderList, remTable, remStore, remMounted, remLoads, remCreates,
          remDeletes, rems, edits, adds, ops, babyName, birthDate,
          profLoading, profTable, profStore, profLoads, profSaves,
          arg, res, form, authCalls>>


\* the records side does not move during a timer step
RecIdle ==
    /\ ProfIdle
    /\ UNCHANGED <<configured, user, session, records, isLoading, feedTable,
                feedStore, loads, creates, updates, deletes, nextUuid,
                reminderList, remTable, remStore, remMounted, remLoads, remCreates,
             remDeletes, rems, edits,
                adds, ops>>

\* the timer does not move
TimerStill ==
    UNCHANGED <<isRunning, startTimestamp, pausedSeconds, selectedSide,
                renderTrigger, elapsedSeconds, visible, timerStorage,
                rehydrated, callLog>>

\* neither the timer nor the profile moves during a records step
TimerIdle ==
    /\ TimerStill
    /\ ProfIdle

\* number | null
Null == <<>>

\* no form is open
FormsUnused ==
    /\ form = Null
    /\ authCalls = <<>>

\* the specifications of the stateful parts evaluate no pure function
PureUnused ==
    /\ arg = Null
    /\ res = Null
    /\ FormsUnused
Some(t) == <<t>>
Val(x) == x[1]

Sides == {"left", "right"}

Users == {"A", "B"}
\* user === null
NoUser == "null"

\* localStorage.getItem returns null when the key is absent
NoItem == [kind |-> "none"]

\* a localStorage item whose text JSON.parse rejects
Corrupt == [kind |-> "corrupt"]

\* JSON.stringify(stateToSave)
Stringify(r, s, p, side) ==
    [kind |-> "json", isRunning |-> r, startTimestamp |-> s,
     pausedSeconds |-> p, selectedSide |-> side]

\* loadPersistedState: the parsed object, or null
loadPersistedState(item) ==
    IF item.kind = "json"
    THEN [isNull |-> FALSE, isRunning |-> item.isRunning,
          startTimestamp |-> item.startTimestamp,
          pausedSeconds |-> item.pausedSeconds,
          selectedSide |-> item.selectedSide]
    ELSE [isNull |-> TRUE]

\* useState(persistedState?.x || default): a falsy x gives the default
InitialStateLosingSeconds(item) ==
    LET ps == loadPersistedState(item) IN
    IF ps.isNull
    THEN [isRunning |-> FALSE, startTimestamp |-> Null, pausedSeconds |-> 0,
          selectedSide |-> "left"]
    ELSE [isRunning |-> ps.isRunning,
          startTimestamp |->
              IF ps.startTimestamp = Null \/ Val(ps.startTimestamp) = 0
              THEN Null ELSE ps.startTimestamp,
          pausedSeconds |-> 0,
          selectedSide |-> IF ps.selectedSide = "" THEN "left" ELSE ps.selectedSide]

\* a construction that never resumes a running timer
InitialStateNeverRunning(item) ==
    LET ps == loadPersistedState(item) IN
    IF ps.isNull
    THEN [isRunning |-> FALSE, startTimestamp |-> Null, pausedSeconds |-> 0,
          selectedSide |-> "left"]
    ELSE [isRunning |-> FALSE,
          startTimestamp |->
              IF ps.startTimestamp = Null \/ Val(ps.startTimestamp) = 0
              THEN Null ELSE ps.startTimestamp,
          pausedSeconds |-> ps.pausedSeconds,
          selectedSide |-> IF ps.selectedSide = "" THEN "left" ELSE ps.selectedSide]

InitialState(item) ==
    LET ps == loadPersistedState(item) IN
    IF ps.isNull
    THEN [isRunning |-> FALSE, startTimestamp |-> Null, pausedSeconds |-> 0,
          selectedSide |-> "left"]
    ELSE [isRunning |-> ps.isRunning,
          startTimestamp |->
              IF ps.startTimestamp = Null \/ Val(ps.startTimestamp) = 0
              THEN Null ELSE ps.startTimestamp,
          pausedSeconds |-> ps.pausedSeconds,
          selectedSide |-> IF ps.selectedSide = "" THEN "left" ELSE ps.selectedSide]

\* getElapsedSeconds over explicit arguments
ElapsedAt(r, s, p, t) ==
    IF ~r \/ s = Null
    THEN p
    ELSE p + ((t - Val(s)) \div MsPerSec)

\* getElapsedSeconds() in the current state
getElapsedSeconds == ElapsedAt(isRunning, startTimestamp, pausedSeconds, now)

\* One render of TimerProvider after the state became (r, s, p, side): the
\* context value elapsedSeconds is recomputed and the persist effect writes
\* the four fields to localStorage.
Commit(r, s, p, side) ==
    /\ isRunning' = r
    /\ startTimestamp' = s
    /\ pausedSeconds' = p
    /\ selectedSide' = side
    /\ elapsedSeconds' = ElapsedAt(r, s, p, now)
    /\ timerStorage' = Stringify(r, s, p, side)
    /\ rehydrated' = FALSE

\* A call whose setters all receive the current values causes no render.
Rendered(r, s, p, side) ==
    IF <<r, s, p, side>> = <<isRunning, startTimestamp, pausedSeconds, selectedSide>>
    THEN UNCHANGED <<isRunning, startTimestamp, pausedSeconds, selectedSide,
                     elapsedSeconds, timerStorage, rehydrated>>
    ELSE Commit(r, s, p, side)

Logged(op) ==
    /\ Len(callLog) < MaxLog
    /\ callLog' = Append(callLog, [op |-> op, t |-> now])

TimerInit ==
    /\ now = ClockStep
    /\ LET st == InitialState(NoItem) IN
         /\ isRunning = st.isRunning
         /\ startTimestamp = st.startTimestamp
         /\ pausedSeconds = st.pausedSeconds
         /\ selectedSide = st.selectedSide
         /\ elapsedSeconds = ElapsedAt(st.isRunning, st.startTimestamp,
                                       st.pausedSeconds, ClockStep)
         /\ timerStorage = Stringify(st.isRunning, st.startTimestamp,
                                     st.pausedSeconds, st.selectedSide)
    /\ renderTrigger = 0
    /\ visible = TRUE
    /\ rehydrated = FALSE
    /\ callLog = <<>>

\* the wall clock moves on; nothing renders
Advance ==
    /\ RecIdle
    /\ now < ClockStep * (MaxTicks + 1)
    /\ now' = now + ClockStep
    /\ UNCHANGED <<isRunning, startTimestamp, pausedSeconds, selectedSide,
                   renderTrigger, elapsedSeconds, visible, timerStorage, rehydrated,
               callLog>>

startTimerRestarting ==
    /\ RecIdle
    /\ Logged("start")
    /\ Rendered(TRUE, Some(now), pausedSeconds, selectedSide)
    /\ UNCHANGED <<now, renderTrigger, visible>>

startTimer ==
    /\ RecIdle
    /\ Logged("start")
    /\ IF ~isRunning
       THEN Rendered(TRUE, Some(now), pausedSeconds, selectedSide)
       ELSE UNCHANGED <<isRunning, startTimestamp, pausedSeconds, selectedSide,
                        elapsedSeconds, timerStorage, rehydrated>>
    /\ UNCHANGED <<now, renderTrigger, visible>>

\* a pause that forgets the open segment
pauseTimerDroppingSegment ==
    /\ RecIdle
    /\ Logged("pause")
    /\ Rendered(FALSE, Null, pausedSeconds, selectedSide)
    /\ UNCHANGED <<now, renderTrigger, visible>>

pauseTimer ==
    /\ RecIdle
    /\ Logged("pause")
    /\ IF isRunning /\ startTimestamp # Null
       THEN LET currentElapsed ==
                    pausedSeconds + ((now - Val(startTimestamp)) \div MsPerSec)
            IN Rendered(FALSE, Null, currentElapsed, selectedSide)
       ELSE UNCHANGED <<isRunning, startTimestamp, pausedSeconds, selectedSide,
                        elapsedSeconds, timerStorage, rehydrated>>
    /\ UNCHANGED <<now, renderTrigger, visible>>

resetTimerKeepingSeconds ==
    /\ RecIdle
    /\ Logged("reset")
    /\ Rendered(FALSE, Null, pausedSeconds, selectedSide)
    /\ UNCHANGED <<now, renderTrigger, visible>>

resetTimer ==
    /\ RecIdle
    /\ Logged("reset")
    /\ Rendered(FALSE, Null, 0, selectedSide)
    /\ UNCHANGED <<now, renderTrigger, visible>>

handleSetSelectedSide(side) ==
    /\ RecIdle
    /\ side # selectedSide
    /\ Rendered(isRunning, startTimestamp, pausedSeconds, side)
    /\ UNCHANGED <<now, renderTrigger, visible, callLog>>

toggleSide ==
    /\ RecIdle
    /\ Rendered(isRunning, startTimestamp, pausedSeconds,
                IF selectedSide = "left" THEN "right" ELSE "left")
    /\ UNCHANGED <<now, renderTrigger, visible, callLog>>
\* a display tick that counted a second instead of repainting
RepaintAccumulating ==
    /\ renderTrigger < MaxRender
    /\ renderTrigger' = renderTrigger + 1
    /\ Commit(isRunning, startTimestamp, pausedSeconds + 1, selectedSide)

\* setRenderTrigger(prev => prev + 1): a render and nothing else
Repaint ==
    /\ renderTrigger < MaxRender
    /\ renderTrigger' = renderTrigger + 1
    /\ elapsedSeconds' = getElapsedSeconds
    /\ UNCHANGED <<isRunning, startTimestamp, pausedSeconds, selectedSide,
                   timerStorage, rehydrated>>

\* the setInterval callback, installed while isRunning
DisplayTick ==
    /\ RecIdle
    /\ isRunning
    /\ Repaint
    /\ UNCHANGED <<now, visible, callLog>>

\* the 'visibilitychange' listener
handleVisibilityChange ==
    /\ RecIdle
    /\ visible' = ~visible
    /\ IF visible'
       THEN Repaint
       ELSE UNCHANGED <<isRunning, startTimestamp, pausedSeconds, selectedSide,
                        renderTrigger, elapsedSeconds, timerStorage, rehydrated>>
    /\ UNCHANGED <<now, callLog>>

\* the page is loaded again: TimerProvider is constructed from localStorage
Reload ==
    /\ RecIdle
    /\ LET st == InitialState(timerStorage) IN
         /\ isRunning' = st.isRunning
         /\ startTimestamp' = st.startTimestamp
         /\ pausedSeconds' = st.pausedSeconds
         /\ selectedSide' = st.selectedSide
         /\ elapsedSeconds' = ElapsedAt(st.isRunning, st.startTimestamp,
                                        st.pausedSeconds, now)
         /\ timerStorage' = Stringify(st.isRunning, st.startTimestamp,
                                      st.pausedSeconds, st.selectedSide)
    /\ renderTrigger' = 0
    /\ visible' = TRUE
    /\ rehydrated' = TRUE
    /\ UNCHANGED <<now, callLog>>

TimerNext ==
    \/ Advance
    \/ startTimer
    \/ pauseTimer
    \/ resetTimer
    \/ \E side \in Sides : handleSetSelectedSide(side)
    \/ toggleSide
    \/ DisplayTick
    \/ handleVisibilityChange
    \/ Reload

\* the providers as constructed on a device without Supabase
AsConstructed ==
    /\ TimerInit
    /\ configured = FALSE
    /\ user = NoUser
    /\ session = NoUser
    /\ records = <<>>
    /\ isLoading = FALSE
    /\ feedTable = {}
    /\ feedStore = NoItem
    /\ loads = {}
    /\ creates = {}
    /\ updates = {}
    /\ deletes = {}
    /\ nextUuid = 0
    /\ reminderList = <<>>
    /\ remTable = {}
    /\ remStore = NoItem
    /\ remMounted = FALSE
    /\ remLoads = {}
    /\ remCreates = {}
    /\ remDeletes = {}
    /\ rems = 0
    /\ edits = 0
    /\ adds = 0
    /\ ops = 0
    /\ babyName = ""
    /\ birthDate = ""
    /\ profLoading = FALSE
    /\ profTable = {}
    /\ profStore = NoItem
    /\ profLoads = {}
    /\ profSaves = {}

\* the timer alone: the records side stays as constructed
TimerSpecInit ==
    /\ AsConstructed
    /\ PureUnused

TimerSpec == TimerSpecInit /\ [][TimerNext]_vars

\* ------------------------------------------------ records: bounds and data
\* number of calls made by the caregiver or the identity provider (sign-in,
\* sign-out, auth event, add, update, delete) explored
MaxOps == 3
\* number of addRecord calls explored
MaxAdds == 2
\* number of clock advances explored on the records side
RecTicks == 1
\* number of handleSaveReminder calls explored
MaxRems == 2


\* amountMl values a caregiver enters; the note of an entity is the number
\* of the addRecord call that made it (0 for an entity of an earlier
\* session), so that two inputs never coincide in every field
Amounts == {60, 90}
\* the amount of a quick-add; an edit changes it to any of Amounts
NewAmounts == {60}

\* the k-th identifier of gen_random_uuid(); never equal to a Date.now() id
Uuid(k) == 0 - k

\* ---------------------------------------------------- persistence adapter
\* dbToFeedRecord: remote row -> in-memory entity (owner: the row's user_id)
dbToFeedRecord(row) ==
    [id |-> row.id, startTime |-> row.start_time, note |-> row.note,
     amountMl |-> row.amount_ml, owner |-> row.user_id]

\* feedRecordToDb: in-memory entity -> remote columns
feedRecordToDb(record) ==
    [id |-> record.id, start_time |-> record.startTime, note |-> record.note,
     amount_ml |-> record.amountMl]

\* a getFromStorage without try / catch: the SyntaxError of JSON.parse
\* reaches the caller in place of a list
getFromStorageUnguarded(item) ==
    IF item.kind = "json" THEN item.value
    ELSE IF item.kind = "none" THEN <<>> ELSE <<"SyntaxError">>

\* getFromStorage(FEED_RECORDS, []): the stored list, [] when the item is
\* absent or JSON.parse throws (lines 183-190)
getFromStorage(item) == IF item.kind = "json" THEN item.value ELSE <<>>

\* saveToStorage(FEED_RECORDS, data)
saveToStorage(data) == [kind |-> "json", value |-> data]

RangeOf(seq) == {seq[i] : i \in 1..Len(seq)}

\* rows the policy "auth.uid() = user_id" lets the token's principal see
VisibleRows(token) == {row \in feedTable : row.user_id = token}

\* .order('start_time', { ascending: false }): any order of the rows that is
\* descending by start_time (rows of equal start_time come in either order)
IsOrdered(seq, rows) ==
    /\ Len(seq) = Cardinality(rows)
    /\ RangeOf(seq) = rows
    /\ \A i \in 1..(Len(seq) - 1) : seq[i].start_time >= seq[i + 1].start_time

RowSeqs(rows) == UNION {[1..n -> rows] : n \in {Cardinality(rows)}}

MapSeq(seq, Op(_)) == [i \in 1..Len(seq) |-> Op(seq[i])]

\* ------------------------------------------------------- RecordsProvider
\* addRecord, line 70: prev.map(r => r.id === record.id ? saved : r), applied
\* only when the write returned an entity with another id
ReconcileWithRollback(prev, record, saved) ==
    IF saved = Null
    THEN SelectSeq(prev, LAMBDA r : r.id # record.id)
    ELSE IF Val(saved).id # record.id
         THEN [i \in 1..Len(prev) |->
                   IF prev[i].id = record.id THEN Val(saved) ELSE prev[i]]
         ELSE prev

Reconcile(prev, record, saved) ==
    IF saved # Null /\ Val(saved).id # record.id
    THEN [i \in 1..Len(prev) |->
              IF prev[i].id = record.id THEN Val(saved) ELSE prev[i]]
    ELSE prev

\* updateRecord, line 76: prev.map(r => r.id === id ? updatedRecord : r)
ReplaceMerging(prev, id, updatedRecord) ==
    IF \E i \in 1..Len(prev) : prev[i].id = id
    THEN [i \in 1..Len(prev) |->
              IF prev[i].id = id THEN updatedRecord ELSE prev[i]]
    ELSE <<updatedRecord>> \o prev

Replace(prev, id, updatedRecord) ==
    [i \in 1..Len(prev) |-> IF prev[i].id = id THEN updatedRecord ELSE prev[i]]

\* a removal by findIndex and splice: the first match goes, and an absent id
\* (index -1) takes the last entry
RemoveBySplice(prev, id) ==
    LET hit == {i \in 1..Len(prev) : prev[i].id = id}
        index == IF hit = {} THEN Len(prev)
                 ELSE CHOOSE i \in hit : \A j \in hit : i <= j
    IN SubSeq(prev, 1, index - 1) \o SubSeq(prev, index + 1, Len(prev))

\* prev.filter(record => record.id !== id)
Remove(prev, id) == SelectSeq(prev, LAMBDA r : r.id # id)

\* a continuation that runs in a microtask: nothing else runs before it
MicrotaskPending ==
    \/ \E l \in loads \cup remLoads : l.micro
    \/ \E l \in profLoads : l.micro

\* events the principal A owns from an earlier session
OldRecord(k) ==
    [id |-> ClockStep - k, startTime |-> ClockStep - k, note |-> 0,
     amountMl |-> 60, owner |-> "A"]

OldRow(k) ==
    [id |-> Uuid(k), start_time |-> ClockStep - k, note |-> 0,
     amount_ml |-> 60, user_id |-> "A"]

\* reminders the principal A owns from an earlier session
OldReminder(k) == [id |-> ClockStep - k, type |-> "feed"]

OldReminderRow(k) ==
    [id |-> Uuid(2 + k), type |-> "feed", created_at |-> 0 - k, user_id |-> "A"]

RecInit ==
    /\ TimerInit
    /\ configured \in BOOLEAN
    /\ user = NoUser
    /\ session = NoUser
    /\ records = <<>>
    /\ isLoading = FALSE
    /\ feedTable = IF configured THEN {OldRow(1), OldRow(2)} ELSE {}
    /\ feedStore = IF configured THEN NoItem
                   ELSE saveToStorage(<<OldRecord(1), OldRecord(2)>>)
    /\ loads = {}
    /\ creates = {}
    /\ updates = {}
    /\ deletes = {}
    /\ reminderList = <<>>
    /\ remTable = IF configured THEN {OldReminderRow(1), OldReminderRow(2)}
                  ELSE {}
    /\ remStore = IF configured THEN NoItem
                  ELSE saveToStorage(<<OldReminder(1), OldReminder(2)>>)
    /\ nextUuid = IF configured
                  THEN Cardinality(feedTable) + Cardinality(remTable) ELSE 0
    /\ remMounted = FALSE
    /\ remLoads = {}
    /\ remCreates = {}
    /\ remDeletes = {}
    /\ rems = 0
    /\ edits = 0
    /\ adds = 0
    /\ ops = 0
    /\ babyName = ""
    /\ birthDate = ""
    /\ profLoading = FALSE
    /\ profTable = {}
    /\ profStore = NoItem
    /\ profLoads = {}
    /\ profSaves = {}
    /\ PureUnused

\* the effect of RecordsProvider for the principal u (lines 37-61), up to the
\* await: clear, then start the load
loadRecords(u) ==
    /\ records' = <<>>
    /\ IF u = NoUser
       THEN /\ isLoading' = FALSE
            /\ UNCHANGED loads
       ELSE /\ isLoading' = TRUE
            /\ loads' = loads \cup
                 {IF configured
                  THEN [forUser |-> u, token |-> session', stage |-> "sent",
                        data |-> <<>>, micro |-> FALSE]
                  ELSE [forUser |-> u, token |-> session', stage |-> "ok",
                        data |-> getFromStorage(feedStore), micro |-> TRUE]}

\* a step of the feed records leaves the timer and the reminders alone
RemIdle ==
    UNCHANGED <<reminderList, remTable, remStore, remMounted, remLoads,
                remCreates, remDeletes, rems>>

\* what updateRecord and deleteRecord leave alone
EditFrame ==
    /\ TimerIdle
    /\ RemIdle
    /\ UNCHANGED <<now, configured>>

RecFrame ==
    /\ EditFrame
    /\ UNCHANGED edits

\* history: the entity of these creates was edited, deleted or cleared by a
\* change of principal while the write was in flight
Disturbed(cs) == {[c EXCEPT !.clean = FALSE] : c \in cs}


\* AuthProvider.signIn: the principal becomes u
signIn(u) ==
    /\ ~MicrotaskPending
    /\ user = NoUser
    /\ ops < MaxOps
    /\ ops' = ops + 1
    /\ session' = u
    /\ user' = u
    /\ loadRecords(u)
    /\ RecFrame
    /\ creates' = Disturbed(creates)
    /\ UNCHANGED <<feedTable, feedStore, updates, deletes, nextUuid, adds>>

\* the principal becomes null: AuthProvider.signOut from the button of the
\* growth view (the reminders view is not mounted then), or, with Supabase,
\* the onAuthStateChange callback without session on whatever view is shown
signOut ==
    /\ ~MicrotaskPending
    /\ user # NoUser
    /\ remMounted => configured
    /\ ops < MaxOps
    /\ ops' = ops + 1
    /\ session' = NoUser
    /\ user' = NoUser
    /\ loadRecords(NoUser)
    /\ RecFrame
    /\ creates' = Disturbed(creates)
    /\ UNCHANGED <<feedTable, feedStore, updates, deletes, nextUuid, adds>>

\* onAuthStateChange callback with a session of the same principal (token
\* refresh, tab focus): setUser receives a new object, the effect runs again
authEvent ==
    /\ ~MicrotaskPending
    /\ configured
    /\ user # NoUser
    /\ ops < MaxOps
    /\ ops' = ops + 1
    /\ UNCHANGED <<session, user>>
    /\ loadRecords(user)
    /\ RecFrame
    /\ UNCHANGED <<feedTable, feedStore, creates, updates, deletes, nextUuid, adds>>

\* the remote store answers getFeedRecords (lines 247-257): the rows, an
\* error (the local list is returned instead), or a rejected promise
LoadServe(l) ==
    /\ l.stage = "sent"
    /\ \/ \E seq \in RowSeqs(VisibleRows(l.token)) :
            /\ IsOrdered(seq, VisibleRows(l.token))
            /\ loads' = (loads \ {l}) \cup
                 {[l EXCEPT !.stage = "ok", !.data = MapSeq(seq, dbToFeedRecord)]}
       \/ loads' = (loads \ {l}) \cup
                 {[l EXCEPT !.stage = "ok", !.data = getFromStorage(feedStore)]}
       \/ loads' = (loads \ {l}) \cup {[l EXCEPT !.stage = "thrown"]}
    /\ RecFrame
    /\ UNCHANGED <<user, session, records, isLoading, feedTable, feedStore,
                   creates, updates, deletes, nextUuid, adds, ops>>

\* a loadRecords without its finally block: a rejected read leaves isLoading
LoadResolveWithoutFinally(l) ==
    /\ l.stage # "sent"
    /\ records' = IF l.stage = "ok" /\ Len(l.data) > 0 THEN l.data ELSE records
    /\ isLoading' = IF l.stage = "ok" THEN FALSE ELSE isLoading
    /\ loads' = loads \ {l}
    /\ RecFrame
    /\ UNCHANGED <<user, session, feedTable, feedStore, creates, updates,
                   deletes, nextUuid, adds, ops>>

\* loadRecords after the await (lines 49-58): the data when there is some,
\* the catch block when the read was rejected, and the finally block
LoadResolve(l) ==
    /\ l.stage # "sent"
    /\ records' = IF l.stage = "ok" /\ Len(l.data) > 0 THEN l.data ELSE records
    /\ isLoading' = FALSE
    /\ loads' = loads \ {l}
    /\ RecFrame
    /\ UNCHANGED <<user, session, feedTable, feedStore, creates, updates,
                   deletes, nextUuid, adds, ops>>

\* addRecord up to the await (lines 63-67), for a quick-add of amount a
\* whose form gives the start time t (the id is Date.now())
addRecordAt(a, t) ==
    /\ ~MicrotaskPending
    /\ user # NoUser
    /\ ops < MaxOps
    /\ ops' = ops + 1
    /\ adds < MaxAdds
    /\ adds' = adds + 1
    /\ LET record == [id |-> now, startTime |-> t, note |-> adds',
                      amountMl |-> a, owner |-> user]
       IN /\ records' = <<record>> \o records
          /\ IF configured
             THEN /\ creates' = creates \cup
                       {[n |-> adds', record |-> record, by |-> user,
                         stage |-> "sent", saved |-> Null,
                         clean |-> TRUE]}
                  /\ UNCHANGED feedStore
             ELSE /\ feedStore' =
                       saveToStorage(<<record>> \o getFromStorage(feedStore))
                  /\ UNCHANGED creates
    /\ RecFrame
    /\ UNCHANGED <<user, session, isLoading, feedTable, loads, updates,
                   deletes, nextUuid>>

\* a quick-add that keeps the form's default time, the current time
addRecord(a) == addRecordAt(a, now)

\* the remote store answers createFeedRecord (lines 268-289): the row is
\* tagged with the session's user id; the policy rejects a row without one
CreateServe(c) ==
    /\ c.stage = "sent"
    /\ \/ /\ session # NoUser
          /\ LET row == [id |-> Uuid(nextUuid + 1),
                         start_time |-> feedRecordToDb(c.record).start_time,
                         note |-> feedRecordToDb(c.record).note,
                         amount_ml |-> feedRecordToDb(c.record).amount_ml,
                         user_id |-> session]
             IN /\ feedTable' = feedTable \cup {row}
                /\ creates' = (creates \ {c}) \cup
                     {[c EXCEPT !.stage = "ok", !.saved = Some(dbToFeedRecord(row))]}
          /\ nextUuid' = nextUuid + 1
       \/ /\ creates' = (creates \ {c}) \cup {[c EXCEPT !.stage = "err"]}
          /\ UNCHANGED <<feedTable, nextUuid>>
    /\ RecFrame
    /\ UNCHANGED <<user, session, records, isLoading, feedStore, loads,
                   updates, deletes, adds, ops>>

\* addRecord after the await (lines 68-71)
CreateResolve(c) ==
    /\ c.stage \in {"ok", "err"}
    /\ records' = Reconcile(records, c.record, c.saved)
    /\ creates' = creates \ {c}
    /\ RecFrame
    /\ UNCHANGED <<user, session, isLoading, feedTable, feedStore, loads,
                   updates, deletes, nextUuid, adds, ops>>

\* entities an edit dialog can hold: those shown now or shown earlier
KnownRecords ==
    RangeOf(records) \cup RangeOf(getFromStorage(feedStore))
        \cup {dbToFeedRecord(row) : row \in feedTable}
        \cup {c.record : c \in creates}

\* updateRecord(id, updatedRecord) (lines 74-79) and, in local mode, the body
\* of updateFeedRecord (lines 293-301)
updateRecord(id, updatedRecord) ==
    /\ ~MicrotaskPending
    /\ ops < MaxOps
    /\ ops' = ops + 1
    /\ edits' = edits + 1
    /\ records' = Replace(records, id, updatedRecord)
    /\ IF configured
       THEN /\ updates' = updates \cup
                 {[id |-> id, record |-> updatedRecord, token |-> session]}
            /\ UNCHANGED feedStore
       ELSE /\ LET stored == getFromStorage(feedStore)
                   hit == {i \in 1..Len(stored) : stored[i].id = id}
               IN IF hit # {}
                  THEN LET index == CHOOSE i \in hit : \A j \in hit : i <= j
                       IN feedStore' = saveToStorage(
                              [stored EXCEPT ![index] = updatedRecord])
                  ELSE UNCHANGED feedStore
            /\ UNCHANGED updates
    /\ creates' = (creates \ {c \in creates : c.record.id = id})
                     \cup Disturbed({c \in creates : c.record.id = id})
    /\ EditFrame
    /\ UNCHANGED <<user, session, isLoading, feedTable, loads,
                   deletes, nextUuid, adds>>

\* the remote store answers updateFeedRecord (lines 303-318); updateRecord
\* ignores the answer
UpdateSettle(u) ==
    /\ updates' = updates \ {u}
    /\ \/ /\ \E row \in VisibleRows(u.token) : row.id = u.id
          /\ feedTable' =
                {IF row.id = u.id /\ row.user_id = u.token
                 THEN [row EXCEPT
                          !.start_time = feedRecordToDb(u.record).start_time,
                          !.note = feedRecordToDb(u.record).note,
                          !.amount_ml = feedRecordToDb(u.record).amount_ml]
                 ELSE row : row \in feedTable}
       \/ UNCHANGED feedTable
    /\ RecFrame
    /\ UNCHANGED <<user, session, records, isLoading, feedStore, loads,
                   creates, deletes, nextUuid, adds, ops>>

\* deleteRecord(id) (lines 81-86) and, in local mode, the body of
\* deleteFeedRecord (lines 322-327)
deleteRecord(id) ==
    /\ ~MicrotaskPending
    /\ ops < MaxOps
    /\ ops' = ops + 1
    /\ edits' = edits + 1
    /\ records' = Remove(records, id)
    /\ IF configured
       THEN /\ deletes' = deletes \cup {[id |-> id, token |-> session]}
            /\ UNCHANGED feedStore
       ELSE /\ feedStore' = saveToStorage(
                   SelectSeq(getFromStorage(feedStore), LAMBDA r : r.id # id))
            /\ UNCHANGED deletes
    /\ creates' = (creates \ {c \in creates : c.record.id = id})
                     \cup Disturbed({c \in creates : c.record.id = id})
    /\ EditFrame
    /\ UNCHANGED <<user, session, isLoading, feedTable, loads,
                   updates, nextUuid, adds>>

\* the remote store answers deleteFeedRecord (lines 329-339)
DeleteSettle(d) ==
    /\ deletes' = deletes \ {d}
    /\ \/ feedTable' = {row \in feedTable :
                            ~(row.id = d.id /\ row.user_id = d.token)}
       \/ UNCHANGED feedTable
    /\ RecFrame
    /\ UNCHANGED <<user, session, records, isLoading, feedStore, loads,
                   creates, updates, nextUuid, adds, ops>>

\* ------------------------------------------------------------ RemindersView
\* a step of the reminders leaves the timer and the feed records alone
FeedIdle ==
    /\ TimerIdle
    /\ UNCHANGED <<now, configured, user, session, records, isLoading,
                   feedTable, feedStore, loads, creates, updates, deletes, adds,
                   edits>>

ReminderTypes == {"feed", "diaper"}

\* prev.filter(r => r.id !== reminder.id)
RemoveReminder(prev, id) == SelectSeq(prev, LAMBDA r : r.id # id)

\* rows of reminders the policy lets the token's principal see
VisibleReminders(token) == {row \in remTable : row.user_id = token}

\* dbToReminder followed by the field selection of loadReminders
dbToReminder(row) == [id |-> row.id, type |-> row.type]

\* .order('created_at', { ascending: false })
IsNewestFirst(seq, rows) ==
    /\ Len(seq) = Cardinality(rows)
    /\ RangeOf(seq) = rows
    /\ \A i \in 1..(Len(seq) - 1) : seq[i].created_at >= seq[i + 1].created_at

\* the route becomes /reminders: RemindersView mounts with an empty list and
\* its effect calls getReminders (lines 82-104)
RemindersMount ==
    /\ ~MicrotaskPending
    /\ ~remMounted
    /\ ops < MaxOps
    /\ ops' = ops + 1
    /\ remMounted' = TRUE
    /\ reminderList' = <<>>
    /\ remLoads' = remLoads \cup
         {IF configured
          THEN [token |-> session, stage |-> "sent", data |-> <<>>,
                micro |-> FALSE]
          ELSE [token |-> session, stage |-> "ok",
                data |-> getFromStorage(remStore), micro |-> TRUE]}
    /\ FeedIdle
    /\ UNCHANGED <<remTable, remStore, remCreates, remDeletes, nextUuid, rems>>

\* the remote store answers getReminders (lines 425-435)
RemLoadServe(l) ==
    /\ l.stage = "sent"
    /\ \/ \E seq \in RowSeqs(VisibleReminders(l.token)) :
            /\ IsNewestFirst(seq, VisibleReminders(l.token))
            /\ remLoads' = (remLoads \ {l}) \cup
                 {[l EXCEPT !.stage = "ok", !.data = MapSeq(seq, dbToReminder)]}
       \/ remLoads' = (remLoads \ {l}) \cup
                 {[l EXCEPT !.stage = "ok", !.data = getFromStorage(remStore)]}
    /\ FeedIdle
    /\ UNCHANGED <<reminderList, remTable, remStore, remMounted, remCreates,
                   remDeletes, nextUuid, rems, ops>>

\* loadReminders after the await (lines 85-101)
RemLoadResolve(l) ==
    /\ l.stage = "ok"
    /\ reminderList' = IF Len(l.data) > 0 THEN l.data ELSE reminderList
    /\ remLoads' = remLoads \ {l}
    /\ FeedIdle
    /\ UNCHANGED <<remTable, remStore, remMounted, remCreates, remDeletes,
                   nextUuid, rems, ops>>

\* handleSaveReminder (lines 146-172) with, in local mode, the body of
\* createReminder (lines 439-445) and the id replacement that follows
handleSaveReminder(type) ==
    /\ ~MicrotaskPending
    /\ remMounted
    /\ user # NoUser
    /\ ops < MaxOps
    /\ ops' = ops + 1
    /\ rems < MaxRems
    /\ rems' = rems + 1
    /\ LET tempReminder == [id |-> now, type |-> type]
       IN IF configured
          THEN /\ reminderList' = <<tempReminder>> \o reminderList
               /\ remCreates' = remCreates \cup
                    {[n |-> rems', temp |-> tempReminder, stage |-> "sent",
                      saved |-> Null]}
               /\ UNCHANGED remStore
          ELSE LET newReminder == [id |-> now, type |-> type]
               IN /\ remStore' = saveToStorage(
                         <<newReminder>> \o getFromStorage(remStore))
                  /\ reminderList' =
                         [i \in 1..(Len(reminderList) + 1) |->
                             LET r == (<<tempReminder>> \o reminderList)[i]
                             IN IF r.id = tempReminder.id
                                THEN [r EXCEPT !.id = newReminder.id] ELSE r]
                  /\ UNCHANGED remCreates
    /\ FeedIdle
    /\ UNCHANGED <<remTable, remMounted, remLoads, remDeletes, nextUuid>>

\* the remote store answers createReminder (lines 447-469)
RemCreateServe(c) ==
    /\ c.stage = "sent"
    /\ \/ /\ session # NoUser
          /\ LET row == [id |-> Uuid(nextUuid + 1), type |-> c.temp.type,
                         created_at |-> nextUuid + 1, user_id |-> session]
             IN /\ remTable' = remTable \cup {row}
                /\ remCreates' = (remCreates \ {c}) \cup
                     {[c EXCEPT !.stage = "ok",
                                !.saved = Some([id |-> row.id, type |-> row.type])]}
          /\ nextUuid' = nextUuid + 1
       \/ /\ remCreates' = (remCreates \ {c}) \cup {[c EXCEPT !.stage = "err"]}
          /\ UNCHANGED <<remTable, nextUuid>>
    /\ FeedIdle
    /\ UNCHANGED <<reminderList, remStore, remMounted, remLoads, remDeletes,
                   rems, ops>>

\* handleSaveReminder after the await (lines 168-171)
RemCreateResolve(c) ==
    /\ c.stage \in {"ok", "err"}
    /\ reminderList' =
          IF c.saved # Null
          THEN [i \in 1..Len(reminderList) |->
                   IF reminderList[i].id = c.temp.id
                   THEN [reminderList[i] EXCEPT !.id = Val(c.saved).id]
                   ELSE reminderList[i]]
          ELSE reminderList
    /\ remCreates' = remCreates \ {c}
    /\ FeedIdle
    /\ UNCHANGED <<remTable, remStore, remMounted, remLoads, remDeletes,
                   nextUuid, rems, ops>>

\* the delete button of a listed reminder (lines 310-313) with, in local
\* mode, the body of deleteReminder (lines 497-502)
deleteReminderClick(id) ==
    /\ ~MicrotaskPending
    /\ remMounted
    /\ ops < MaxOps
    /\ ops' = ops + 1
    /\ reminderList' = RemoveReminder(reminderList, id)
    /\ IF configured
       THEN /\ remDeletes' = remDeletes \cup {[id |-> id, token |-> session]}
            /\ UNCHANGED remStore
       ELSE /\ remStore' = saveToStorage(
                   SelectSeq(getFromStorage(remStore), LAMBDA r : r.id # id))
            /\ UNCHANGED remDeletes
    /\ FeedIdle
    /\ UNCHANGED <<remTable, remMounted, remLoads, remCreates, nextUuid, rems>>

\* the remote store answers deleteReminder (lines 504-514)
RemDeleteSettle(d) ==
    /\ remDeletes' = remDeletes \ {d}
    /\ \/ remTable' = {row \in remTable :
                           ~(row.id = d.id /\ row.user_id = d.token)}
       \/ UNCHANGED remTable
    /\ FeedIdle
    /\ UNCHANGED <<reminderList, remStore, remMounted, remLoads, remCreates,
                   nextUuid, rems, ops>>

\* the wall clock moves on
Tick ==
    /\ ~MicrotaskPending
    /\ now < ClockStep * (RecTicks + 1)
    /\ now' = now + ClockStep
    /\ TimerIdle
    /\ RemIdle
    /\ UNCHANGED <<configured, user, session, records, isLoading, feedTable,
                   feedStore, loads, creates, updates, deletes, nextUuid,
                   adds, edits, ops>>

RecNext ==
    \/ Tick
    \/ \E u \in Users : signIn(u)
    \/ signOut
    \/ authEvent
    \/ \E l \in loads : LoadServe(l)
    \/ \E l \in loads : LoadResolve(l)
    \/ \E a \in NewAmounts : addRecord(a)
    \/ \E c \in creates : CreateServe(c)
    \/ \E c \in creates : CreateResolve(c)
    \/ \E e \in KnownRecords, a \in Amounts :
           updateRecord(e.id, [e EXCEPT !.amountMl = a])
    \/ \E u \in updates : UpdateSettle(u)
    \/ \E e \in KnownRecords : deleteRecord(e.id)
    \/ \E d \in deletes : DeleteSettle(d)
    \/ RemindersMount
    \/ \E l \in remLoads : RemLoadServe(l)
    \/ \E l \in remLoads : RemLoadResolve(l)
    \/ \E type \in ReminderTypes : handleSaveReminder(type)
    \/ \E c \in remCreates : RemCreateServe(c)
    \/ \E c \in remCreates : RemCreateResolve(c)
    \/ \E r \in RangeOf(reminderList) : deleteReminderClick(r.id)
    \/ \E d \in remDeletes : RemDeleteSettle(d)

RecSpec == RecInit /\ [][RecNext]_vars

\* ------------------------------------------------------------ save timer
\* Math.ceil(n / d) for n >= 0, d > 0
CeilDiv(n, d) == (n + d - 1) \div d

SecPerMin == 60

\* the FeedRecord built by handleSaveTimer from the rendered seconds
TimerRecord(seconds) ==
    [id |-> now, type |-> "breast", side |-> selectedSide,
     startTime |-> now - seconds * MsPerSec, endTime |-> now,
     durationMinutes |->
         IF CeilDiv(seconds, SecPerMin) > 1
         THEN CeilDiv(seconds, SecPerMin) ELSE 1,
     durationSeconds |-> seconds, owner |-> user]

\* a save that leaves the side as it was
handleSaveTimerKeepingSide ==
    /\ user # NoUser
    /\ ~configured
    /\ elapsedSeconds # 0
    /\ Logged("save")
    /\ LET record == TimerRecord(elapsedSeconds)
       IN /\ records' = <<record>> \o records
          /\ feedStore' = saveToStorage(<<record>> \o getFromStorage(feedStore))
    /\ Commit(FALSE, Null, 0, selectedSide)
    /\ UNCHANGED <<now, renderTrigger, visible, configured, user, session,
                   isLoading, feedTable, loads, creates, updates, deletes,
                   nextUuid, reminderList, remTable, remStore, remMounted,
                   remLoads, remCreates, remDeletes, rems, edits, adds, ops>>
    /\ ProfIdle

\* HomeView.handleSaveTimer (lines 687-709) with the local store: seconds is
\* the elapsedSeconds of the last render; addRecord prepends the record and
\* createFeedRecord (lines 261-266) stores it; resetTimer and toggleSide are
\* batched into one render. With seconds = 0 the handler returns at once.
handleSaveTimer ==
    /\ user # NoUser
    /\ ~configured
    /\ elapsedSeconds # 0
    /\ Logged("save")
    /\ LET record == TimerRecord(elapsedSeconds)
       IN /\ records' = <<record>> \o records
          /\ feedStore' = saveToStorage(<<record>> \o getFromStorage(feedStore))
    /\ Commit(FALSE, Null, 0, IF selectedSide = "left" THEN "right" ELSE "left")
    /\ UNCHANGED <<now, renderTrigger, visible, configured, user, session,
                   isLoading, feedTable, loads, creates, updates, deletes,
                   nextUuid, reminderList, remTable, remStore, remMounted,
                   remLoads, remCreates, remDeletes, rems, edits, adds, ops>>
    /\ ProfIdle

\* the save button pressed while the rendered seconds are 0: line 688 returns
handleSaveTimerAtZero ==
    /\ user # NoUser
    /\ elapsedSeconds = 0
    /\ Logged("save0")
    /\ RecIdle
    /\ UNCHANGED <<now, isRunning, startTimestamp, pausedSeconds, selectedSide,
                   renderTrigger, elapsedSeconds, visible, timerStorage,
                   rehydrated>>

SaveNext ==
    \/ Advance
    \/ startTimer
    \/ pauseTimer
    \/ resetTimer
    \/ toggleSide
    \/ DisplayTick
    \/ Reload
    \/ handleSaveTimer
    \/ handleSaveTimerAtZero

\* the timer on the home view of a signed-in principal, local store
SaveInit ==
    /\ TimerInit
    /\ configured = FALSE
    /\ user = "A"
    /\ session = "A"
    /\ records = <<>>
    /\ isLoading = FALSE
    /\ feedTable = {}
    /\ feedStore = NoItem
    /\ loads = {}
    /\ creates = {}
    /\ updates = {}
    /\ deletes = {}
    /\ nextUuid = 0
    /\ reminderList = <<>>
    /\ remTable = {}
    /\ remStore = NoItem
    /\ remMounted = FALSE
    /\ remLoads = {}
    /\ remCreates = {}
    /\ remDeletes = {}
    /\ rems = 0
    /\ edits = 0
    /\ adds = 0
    /\ ops = 0
    /\ babyName = ""
    /\ birthDate = ""
    /\ profLoading = FALSE
    /\ profTable = {}
    /\ profStore = NoItem
    /\ profLoads = {}
    /\ profSaves = {}
    /\ PureUnused

SaveSpec == SaveInit /\ [][SaveNext]_vars

\* ------------------------------------------------------------ baby profile
\* the id given to the profile kept on the device (line 552: id: 'local')
LocalProfileId == 0

\* name and birth date a caregiver enters
Profiles == {[name |-> "Mia", birthDate |-> "2024-01-01"],
             [name |-> "Noa", birthDate |-> "2024-02-02"]}

\* a row of baby_profiles -> BabyProfile (lines 541-546)
rowToProfile(row) ==
    [id |-> row.id, userId |-> row.user_id, name |-> row.name,
     birthDate |-> row.birth_date]

\* getFromStorage(BABY_PROFILE, null)
getProfileFromStorage(item) ==
    IF item.kind = "json" THEN Some(item.value) ELSE Null

\* the profile principal A saved in an earlier session
OldProfileRow ==
    [id |-> Uuid(5), user_id |-> "A", name |-> "Ada", birth_date |-> "2023-12-31"]

OldProfile ==
    [id |-> LocalProfileId, userId |-> NoUser, name |-> "Ada",
     birthDate |-> "2023-12-31"]

\* rows of baby_profiles the policy lets the token's principal see
VisibleProfiles(token) == {row \in profTable : row.user_id = token}

\* the effect of BabyProvider for the principal u (lines 29-56), up to the
\* await
loadProfile(u) ==
    IF u = NoUser
    THEN /\ babyName' = ""
         /\ birthDate' = ""
         /\ profLoading' = FALSE
         /\ UNCHANGED profLoads
    ELSE /\ profLoading' = TRUE
         /\ UNCHANGED <<babyName, birthDate>>
         /\ profLoads' = profLoads \cup
              {IF configured
               THEN [token |-> session', stage |-> "sent", result |-> Null,
                     micro |-> FALSE]
               ELSE [token |-> session', stage |-> "ok",
                     result |-> getProfileFromStorage(profStore),
                     micro |-> TRUE]}

\* what a step of the profile leaves alone besides the records
ProfFrame ==
    /\ TimerStill
    /\ PureIdle
    /\ RemIdle
    /\ UNCHANGED <<now, configured, edits, adds, feedTable, feedStore,
                   updates, deletes>>

\* AuthProvider.signIn seen by both providers: the effects of
\* RecordsProvider and of BabyProvider run for the new principal
signInAll(u) ==
    /\ ~MicrotaskPending
    /\ user = NoUser
    /\ ops < MaxOps
    /\ ops' = ops + 1
    /\ session' = u
    /\ user' = u
    /\ loadRecords(u)
    /\ loadProfile(u)
    /\ creates' = Disturbed(creates)
    /\ ProfFrame
    /\ UNCHANGED <<nextUuid, profTable, profStore, profSaves>>

\* AuthProvider.signOut seen by both providers
signOutAll ==
    /\ ~MicrotaskPending
    /\ user # NoUser
    /\ ops < MaxOps
    /\ ops' = ops + 1
    /\ session' = NoUser
    /\ user' = NoUser
    /\ loadRecords(NoUser)
    /\ loadProfile(NoUser)
    /\ creates' = Disturbed(creates)
    /\ ProfFrame
    /\ UNCHANGED <<nextUuid, profTable, profStore, profSaves>>

\* onAuthStateChange with a session of the same principal, seen by both
authEventAll ==
    /\ ~MicrotaskPending
    /\ configured
    /\ user # NoUser
    /\ ops < MaxOps
    /\ ops' = ops + 1
    /\ UNCHANGED <<session, user, creates>>
    /\ loadRecords(user)
    /\ loadProfile(user)
    /\ ProfFrame
    /\ UNCHANGED <<nextUuid, profTable, profStore, profSaves>>

\* what the asynchronous steps of the profile leave alone
ProfAsyncFrame ==
    /\ ProfFrame
    /\ UNCHANGED <<user, session, records, isLoading, loads, creates, ops>>

\* the remote store answers getBabyProfile (lines 526-546): the row, no row
\* (PGRST116), an error (the device's profile is returned instead), or a
\* rejected promise
ProfLoadServe(l) ==
    /\ l.stage = "sent"
    /\ \/ \E row \in VisibleProfiles(l.token) :
            profLoads' = (profLoads \ {l}) \cup
                {[l EXCEPT !.stage = "ok", !.result = Some(rowToProfile(row))]}
       \/ /\ VisibleProfiles(l.token) = {}
          /\ profLoads' = (profLoads \ {l}) \cup {[l EXCEPT !.stage = "ok"]}
       \/ profLoads' = (profLoads \ {l}) \cup
                {[l EXCEPT !.stage = "ok",
                           !.result = getProfileFromStorage(profStore)]}
       \/ profLoads' = (profLoads \ {l}) \cup {[l EXCEPT !.stage = "thrown"]}
    /\ ProfAsyncFrame
    /\ UNCHANGED <<nextUuid, babyName, birthDate, profLoading, profTable,
                   profStore, profSaves>>

\* loadProfile after the await (lines 41-52)
ProfLoadResolve(l) ==
    /\ l.stage # "sent"
    /\ IF l.stage = "ok"
       THEN IF l.result # Null
            THEN /\ babyName' = Val(l.result).name
                 /\ birthDate' = Val(l.result).birthDate
            ELSE /\ babyName' = ""
                 /\ birthDate' = ""
       ELSE UNCHANGED <<babyName, birthDate>>
    /\ profLoading' = FALSE
    /\ profLoads' = profLoads \ {l}
    /\ ProfAsyncFrame
    /\ UNCHANGED <<nextUuid, profTable, profStore, profSaves>>

\* a save that inserts without looking for the principal's profile, into a
\* table without the UNIQUE constraint
SaveWriteAlwaysInserting(c) ==
    /\ c.stage = "write"
    /\ \/ /\ session = c.uid
          /\ nextUuid' = nextUuid + 1
          /\ LET row == [id |-> Uuid(nextUuid'), user_id |-> c.uid,
                         name |-> c.profile.name,
                         birth_date |-> c.profile.birthDate]
             IN /\ profTable' = profTable \cup {row}
                /\ profSaves' = (profSaves \ {c}) \cup
                      {[c EXCEPT !.stage = "done",
                                 !.result = Some(rowToProfile(row))]}
       \/ /\ profSaves' = (profSaves \ {c}) \cup {[c EXCEPT !.stage = "done"]}
          /\ UNCHANGED <<nextUuid, profTable>>
    /\ ProfAsyncFrame
    /\ UNCHANGED <<babyName, birthDate, profLoading, profStore, profLoads>>

\* updateBabyProfile(name, birthDate) up to the first await (lines 58-60);
\* with the local store saveBabyProfile (lines 551-555) writes the device's
\* profile and the continuation sets the name and the birth date
updateBabyProfile(profile) ==
    /\ ~MicrotaskPending
    /\ ops < MaxOps
    /\ ops' = ops + 1
    /\ IF configured
       THEN /\ profSaves' = profSaves \cup
                 {[n |-> ops', profile |-> profile, stage |-> "uid",
                   uid |-> NoUser, existing |-> Null, result |-> Null]}
            /\ UNCHANGED <<babyName, birthDate, profStore>>
       ELSE /\ profStore' = saveToStorage(
                   [id |-> LocalProfileId, userId |-> NoUser,
                    name |-> profile.name, birthDate |-> profile.birthDate])
            /\ babyName' = profile.name
            /\ birthDate' = profile.birthDate
            /\ UNCHANGED profSaves
    /\ ProfFrame
    /\ UNCHANGED <<user, session, records, isLoading, loads, creates,
                   nextUuid, profLoading, profTable, profLoads>>

\* saveBabyProfile: getCurrentUserId answers (lines 557-558)
SaveUserId(c) ==
    /\ c.stage = "uid"
    /\ profSaves' = (profSaves \ {c}) \cup
          {IF session = NoUser
           THEN [c EXCEPT !.stage = "done"]
           ELSE [c EXCEPT !.stage = "check", !.uid = session]}
    /\ ProfAsyncFrame
    /\ UNCHANGED <<nextUuid, babyName, birthDate, profLoading, profTable,
                   profStore, profLoads>>

\* saveBabyProfile: getBabyProfile answers (line 561): the principal's row,
\* none, the device's profile after an error, or a rejected promise, which
\* updateBabyProfile catches (lines 65-67)
SaveCheck(c) ==
    /\ c.stage = "check"
    /\ \/ \E row \in VisibleProfiles(session) :
            profSaves' = (profSaves \ {c}) \cup
                {[c EXCEPT !.stage = "write",
                           !.existing = Some(rowToProfile(row))]}
       \/ /\ VisibleProfiles(session) = {}
          /\ profSaves' = (profSaves \ {c}) \cup {[c EXCEPT !.stage = "write"]}
       \/ /\ session # NoUser
          /\ profSaves' = (profSaves \ {c}) \cup
                {[c EXCEPT !.stage = "write",
                           !.existing = getProfileFromStorage(profStore)]}
       \/ profSaves' = (profSaves \ {c}) \cup {[c EXCEPT !.stage = "done"]}
    /\ ProfAsyncFrame
    /\ UNCHANGED <<nextUuid, babyName, birthDate, profLoading, profTable,
                   profStore, profLoads>>

\* saveBabyProfile: the update of the existing row (lines 563-585) or the
\* insert of a new one (lines 586-608); the policy admits rows of the
\* session's principal only, user_id is UNIQUE, and the write can fail
SaveWrite(c) ==
    /\ c.stage = "write"
    /\ \/ /\ c.existing # Null
          /\ \E row \in VisibleProfiles(session) :
               /\ row.id = Val(c.existing).id
               /\ LET new == [row EXCEPT !.name = c.profile.name,
                                         !.birth_date = c.profile.birthDate]
                  IN /\ profTable' = (profTable \ {row}) \cup {new}
                     /\ profSaves' = (profSaves \ {c}) \cup
                           {[c EXCEPT !.stage = "done",
                                      !.result = Some(rowToProfile(new))]}
          /\ UNCHANGED nextUuid
       \/ /\ c.existing = Null
          /\ session = c.uid
          /\ \A row \in profTable : row.user_id # c.uid
          /\ nextUuid' = nextUuid + 1
          /\ LET row == [id |-> Uuid(nextUuid'), user_id |-> c.uid,
                         name |-> c.profile.name,
                         birth_date |-> c.profile.birthDate]
             IN /\ profTable' = profTable \cup {row}
                /\ profSaves' = (profSaves \ {c}) \cup
                      {[c EXCEPT !.stage = "done",
                                 !.result = Some(rowToProfile(row))]}
       \/ /\ profSaves' = (profSaves \ {c}) \cup {[c EXCEPT !.stage = "done"]}
          /\ UNCHANGED <<nextUuid, profTable>>
    /\ ProfAsyncFrame
    /\ UNCHANGED <<babyName, birthDate, profLoading, profStore, profLoads>>

\* updateBabyProfile after the await (lines 61-64)
SaveResolve(c) ==
    /\ c.stage = "done"
    /\ IF c.result # Null
       THEN /\ babyName' = c.profile.name
            /\ birthDate' = c.profile.birthDate
       ELSE UNCHANGED <<babyName, birthDate>>
    /\ profSaves' = profSaves \ {c}
    /\ ProfAsyncFrame
    /\ UNCHANGED <<nextUuid, profLoading, profTable, profStore, profLoads>>

ProfNext ==
    \/ \E u \in Users : signInAll(u)
    \/ signOutAll
    \/ authEventAll
    \/ \E l \in loads : LoadServe(l)
    \/ \E l \in loads : LoadResolve(l)
    \/ \E l \in profLoads : ProfLoadServe(l)
    \/ \E l \in profLoads : ProfLoadResolve(l)
    \/ \E profile \in Profiles : updateBabyProfile(profile)
    \/ \E c \in profSaves : SaveUserId(c)
    \/ \E c \in profSaves : SaveCheck(c)
    \/ \E c \in profSaves : SaveWrite(c)
    \/ \E c \in profSaves : SaveResolve(c)

\* nobody signed in; principal A has two feed events and a profile from an
\* earlier session, in the remote store or on the device
ProfInit ==
    /\ TimerInit
    /\ configured \in BOOLEAN
    /\ user = NoUser
    /\ session = NoUser
    /\ records = <<>>
    /\ isLoading = FALSE
    /\ feedTable = IF configured THEN {OldRow(1), OldRow(2)} ELSE {}
    /\ feedStore = IF configured THEN NoItem
                   ELSE saveToStorage(<<OldRecord(1), OldRecord(2)>>)
    /\ loads = {}
    /\ creates = {}
    /\ updates = {}
    /\ deletes = {}
    /\ reminderList = <<>>
    /\ remTable = {}
    /\ remStore = NoItem
    /\ remMounted = FALSE
    /\ remLoads = {}
    /\ remCreates = {}
    /\ remDeletes = {}
    /\ rems = 0
    /\ edits = 0
    /\ adds = 0
    /\ ops = 0
    /\ babyName = ""
    /\ birthDate = ""
    /\ profLoading = FALSE
    /\ profTable = IF configured THEN {OldProfileRow} ELSE {}
    /\ profStore = IF configured THEN NoItem ELSE saveToStorage(OldProfile)
    /\ profLoads = {}
    /\ profSaves = {}
    /\ nextUuid = IF configured THEN 5 ELSE 0
    /\ PureUnused

ProfSpec == ProfInit /\ [][ProfNext]_vars

\* the loads alone: changes of principal and the two providers' loads
LoadNext ==
    \/ \E u \in Users : signInAll(u)
    \/ signOutAll
    \/ authEventAll
    \/ \E l \in loads : LoadServe(l)
    \/ \E l \in loads : LoadResolve(l)
    \/ \E l \in profLoads : ProfLoadServe(l)
    \/ \E l \in profLoads : ProfLoadResolve(l)

\* every remote read is answered (rows, error or rejection) and every
\* continuation runs
LoadLiveSpec ==
    /\ ProfInit
    /\ [][LoadNext]_vars
    /\ WF_vars(\E l \in loads : LoadServe(l))
    /\ WF_vars(\E l \in loads : LoadResolve(l))
    /\ WF_vars(\E l \in profLoads : ProfLoadServe(l))
    /\ WF_vars(\E l \in profLoads : ProfLoadResolve(l))


\* ==================================================================== claims

\* ---- the call history replayed: the run segments of the timer
\* the state of a stopwatch driven by the call log: running, start of the open
\* segment, whole seconds of the completed segments
RefStep(acc, ev) ==
    IF ev.op = "start"
    THEN IF acc.running THEN acc
         ELSE [running |-> TRUE, from |-> ev.t, done |-> acc.done]
    ELSE IF ev.op = "pause"
    THEN IF acc.running
         THEN [running |-> FALSE, from |-> 0,
               done |-> acc.done + ((ev.t - acc.from) \div MsPerSec)]
         ELSE acc
    ELSE IF ev.op = "save0"
    THEN acc
    ELSE [running |-> FALSE, from |-> 0, done |-> 0]

RECURSIVE RefReplay(_)
RefReplay(log) ==
    IF log = <<>>
    THEN [running |-> FALSE, from |-> 0, done |-> 0]
    ELSE RefStep(RefReplay(SubSeq(log, 1, Len(log) - 1)), log[Len(log)])

\* sum of the run-segment durations in whole seconds at instant t
RefElapsed(log, t) ==
    LET acc == RefReplay(log)
    IN acc.done + (IF acc.running THEN (t - acc.from) \div MsPerSec ELSE 0)

CoreFields == <<isRunning, startTimestamp, pausedSeconds>>

\* C1: whatever start/pause calls, clock advances, display ticks, visibility
\* changes and reads happened, the elapsed value is the sum over the run
\* segments of their whole seconds (the open segment up to now), and a tick
\* or a visibility change never changes isRunning, startTimestamp or the
\* accumulated seconds.
C1_ElapsedIsSumOfSegments ==
    /\ [](getElapsedSeconds = RefElapsed(callLog, now))
    /\ [][(DisplayTick \/ handleVisibilityChange) => UNCHANGED CoreFields]_vars

\* two segments were run, the second is open, a repaint happened, and the
\* whole seconds of the segments are fewer than the seconds of their total
C1_Witness ==
    /\ isRunning
    /\ renderTrigger > 0
    /\ Len(callLog) = 3
    /\ callLog[1].op = "start" /\ callLog[2].op = "pause" /\ callLog[3].op = "start"
    /\ (callLog[2].t - callLog[1].t) = ClockStep
    /\ (now - callLog[3].t) = 3 * ClockStep
    /\ getElapsedSeconds = 1
    /\ elapsedSeconds = 1

\* C2: resetTimer, from any state, gives elapsed 0, not running, a null
\* startTimestamp, and the side it found.
C2_ResetZeroes ==
    [][resetTimer =>
          /\ getElapsedSeconds' = 0
          /\ isRunning' = FALSE
          /\ startTimestamp' = Null
          /\ pausedSeconds' = 0
          /\ selectedSide' = selectedSide]_vars

\* the last call was a reset of a running timer that had seconds accumulated
\* and seconds in its open segment, with the right side selected
C2_Witness ==
    /\ Len(callLog) = 4
    /\ callLog[4].op = "reset"
    /\ RefReplay(SubSeq(callLog, 1, 3)).running
    /\ RefReplay(SubSeq(callLog, 1, 3)).done > 0
    /\ RefElapsed(SubSeq(callLog, 1, 3), callLog[4].t)
          > RefReplay(SubSeq(callLog, 1, 3)).done
    /\ selectedSide = "right"
    /\ ~isRunning /\ startTimestamp = Null /\ getElapsedSeconds = 0

\* C3: the stored item is the serialisation of the four fields, a provider
\* constructed from it has the same four fields and reads the same elapsed
\* value at the same instant, and without a stored item the provider starts
\* not running, with a null startTimestamp and 0 seconds.
C3_PersistedStateRoundTrips ==
    /\ timerStorage = Stringify(isRunning, startTimestamp, pausedSeconds,
                                selectedSide)
    /\ InitialState(timerStorage) =
          [isRunning |-> isRunning, startTimestamp |-> startTimestamp,
           pausedSeconds |-> pausedSeconds, selectedSide |-> selectedSide]
    /\ ElapsedAt(InitialState(timerStorage).isRunning,
                 InitialState(timerStorage).startTimestamp,
                 InitialState(timerStorage).pausedSeconds, now)
          = getElapsedSeconds
    /\ InitialState(NoItem).isRunning = FALSE
    /\ InitialState(NoItem).startTimestamp = Null
    /\ InitialState(NoItem).pausedSeconds = 0

\* a provider constructed from storage: running, seconds accumulated, an
\* open segment of more than a second, the right side
C3_Witness ==
    /\ rehydrated
    /\ isRunning
    /\ pausedSeconds > 0
    /\ getElapsedSeconds > pausedSeconds
    /\ selectedSide = "right"

\* ---- records
SameFields(r, e) ==
    /\ r.startTime = e.startTime
    /\ r.note = e.note
    /\ r.amountMl = e.amountMl

Positions(recs, P(_)) == {i \in 1..Len(recs) : P(recs[i])}

\* C4: when addRecord has resolved, the collection holds exactly one entity
\* with the input's non-identifier fields, and if the write returned another
\* id exactly one entity carries it and none the provisional id. (Stated for
\* creates whose entity was not edited, deleted or cleared by a change of
\* principal meanwhile.)
C4_CreateLeavesExactlyOne ==
    [][/\ \A c \in creates :
             (CreateResolve(c) /\ c.clean) =>
                /\ Cardinality(Positions(records',
                       LAMBDA r : SameFields(r, c.record))) = 1
                /\ (c.saved # Null /\ Val(c.saved).id # c.record.id) =>
                      /\ Cardinality(Positions(records',
                             LAMBDA r : r.id = Val(c.saved).id)) = 1
                      /\ Positions(records',
                             LAMBDA r : r.id = c.record.id) = {}
       /\ \A a \in NewAmounts :
             (addRecord(a) /\ ~configured) =>
                Cardinality(Positions(records',
                    LAMBDA r : SameFields(r, records'[1]))) = 1]_vars

\* C5: while a principal is current, every entity of the in-memory
\* collection belongs to that principal.
C5_NoForeignEntity ==
    user # NoUser => \A i \in 1..Len(records) : records[i].owner = user

\* what the persistence adapter holds for the principal u at the start
PersistedAtStart(u) ==
    IF u = "A"
    THEN IF configured
         THEN {dbToFeedRecord(OldRow(1)), dbToFeedRecord(OldRow(2))}
         ELSE {OldRecord(1), OldRecord(2)}
    ELSE {}

\* C6: a change of principal empties the collection, and afterwards (no
\* entity added or edited) the collection shows only what the adapter holds
\* for the current principal: nothing for B, A's two events for A.
C6_EmptiedThenRefetched ==
    /\ [][user' # user => records' = <<>>]_vars
    /\ []((user # NoUser /\ adds = 0 /\ edits = 0) =>
             RangeOf(records) \subseteq PersistedAtStart(user))

\* C7: a failed remote write changes nothing in memory and is not retried:
\* the created entity stays under its provisional id, the updated entry keeps
\* the new value, the deleted entry stays removed.
C7_FailedWriteKeepsOptimisticState ==
    [][/\ \A c \in creates :
             (CreateResolve(c) /\ c.stage = "err") =>
                /\ records' = records
                /\ creates' = creates \ {c}
                /\ UNCHANGED <<updates, deletes>>
       /\ \A u \in updates :
             (UpdateSettle(u) /\ feedTable' = feedTable) =>
                /\ records' = records
                /\ updates' = updates \ {u}
                /\ UNCHANGED <<creates, deletes>>
       /\ \A d \in deletes :
             (DeleteSettle(d) /\ feedTable' = feedTable) =>
                /\ records' = records
                /\ deletes' = deletes \ {d}
                /\ UNCHANGED <<creates, updates>>]_vars

\* a create failed and has resolved: the entity is in memory under its
\* provisional id and the remote table has no row for it
C7_Witness ==
    /\ configured
    /\ adds = 1
    /\ creates = {}
    /\ \E i \in 1..Len(records) : records[i].note = 1 /\ records[i].id > 0
    /\ \A row \in feedTable : row.note # 1

\* C8: updateRecord(id, entity) replaces the entries whose id is id by entity
\* and nothing else: same length, same order, every other entry as it was,
\* no change when no entry has the id; the answer of the remote write
\* changes nothing in memory.
C8_UpdateReplacesWholesale ==
    [][/\ \A e \in KnownRecords, a \in Amounts :
             updateRecord(e.id, [e EXCEPT !.amountMl = a]) =>
                /\ Len(records') = Len(records)
                /\ \A i \in 1..Len(records) :
                      records'[i] = IF records[i].id = e.id
                                    THEN [e EXCEPT !.amountMl = a]
                                    ELSE records[i]
       /\ \A u \in updates : UpdateSettle(u) => records' = records]_vars

\* an entry of a two-entry collection was updated, the other is as loaded
C8_Witness ==
    /\ edits = 1
    /\ Len(records) = 2
    /\ records[1].amountMl = 90
    /\ records[2].amountMl = 60
    /\ records[2].note = 0
    /\ records[1].startTime > records[2].startTime

\* an update named an id that no entry has: the collection is as loaded
C8_WitnessAbsent == 
    /\ edits = 1
    /\ configured
    /\ \E u \in updates : \A i \in 1..Len(records) : records[i].id # u.id
    /\ Len(records) = 2

\* C9: deleteRecord(id) removes every entry whose id is id, keeps the others
\* in their order, and does so before the remote store has deleted anything;
\* the delete button of a reminder does the same to the reminder list.
C9_DeleteRemovesSynchronously ==
    [][/\ \A e \in KnownRecords :
             deleteRecord(e.id) =>
                /\ records' = SelectSeq(records, LAMBDA r : r.id # e.id)
                /\ feedTable' = feedTable
       /\ \A r \in RangeOf(reminderList) :
             deleteReminderClick(r.id) =>
                /\ reminderList' =
                      SelectSeq(reminderList, LAMBDA x : x.id # r.id)
                /\ remTable' = remTable]_vars

\* an event and a reminder were deleted from two-entry lists while the
\* remote deletes are still in flight
C9_Witness ==
    /\ configured
    /\ Len(records) = 1
    /\ \E d \in deletes : \E row \in feedTable : row.id = d.id
    /\ \A i \in 1..Len(records) : \A d \in deletes : records[i].id # d.id

C9_WitnessReminder ==
    /\ configured
    /\ Len(reminderList) = 1
    /\ \E d \in remDeletes : \E row \in remTable : row.id = d.id
    /\ \A i \in 1..Len(reminderList) :
          \A d \in remDeletes : reminderList[i].id # d.id

\* C10: startTimer changes nothing of the timer when it is running; when it
\* is not, it sets startTimestamp to now and running to true and leaves the
\* accumulated seconds and the side as they were.
C10_StartIsNoOpWhenRunning ==
    [][startTimer =>
          IF isRunning
          THEN UNCHANGED <<isRunning, startTimestamp, pausedSeconds,
                           selectedSide, timerStorage>>
          ELSE /\ isRunning' = TRUE
               /\ startTimestamp' = Some(now)
               /\ pausedSeconds' = pausedSeconds
               /\ selectedSide' = selectedSide]_vars

\* start was called on a running timer, later than the start that opened the
\* segment, with seconds accumulated before
C10_Witness ==
    /\ Len(callLog) = 4
    /\ callLog[3].op = "start" /\ callLog[4].op = "start"
    /\ callLog[4].t > callLog[3].t
    /\ isRunning
    /\ startTimestamp = Some(callLog[3].t)
    /\ pausedSeconds > 0

\* C11: pauseTimer changes nothing of the timer when it is not running; when
\* it is, the whole seconds of the open segment are added to the accumulated
\* seconds, startTimestamp becomes null and running false, and the elapsed
\* value read at the same instant before and after the pause is the same.
C11_PauseFoldsOpenSegment ==
    [][pauseTimer =>
          IF ~isRunning
          THEN UNCHANGED <<isRunning, startTimestamp, pausedSeconds,
                           selectedSide, timerStorage>>
          ELSE /\ pausedSeconds' =
                     pausedSeconds + ((now - Val(startTimestamp)) \div MsPerSec)
               /\ startTimestamp' = Null
               /\ isRunning' = FALSE
               /\ selectedSide' = selectedSide
               /\ now' = now
               /\ getElapsedSeconds' = getElapsedSeconds]_vars

\* a run of one second and a half was paused: one second is accumulated
C11_Witness ==
    /\ Len(callLog) >= 2
    /\ callLog[Len(callLog)].op = "pause"
    /\ callLog[Len(callLog) - 1].op = "start"
    /\ callLog[Len(callLog)].t - callLog[Len(callLog) - 1].t = 3 * ClockStep
    /\ ~isRunning
    /\ startTimestamp = Null
    /\ pausedSeconds >= 1

TimerFields == <<isRunning, startTimestamp, pausedSeconds, selectedSide>>

C13_LoadsComplete ==
    /\ [](loads = {} => ~isLoading)
    /\ [](profLoads = {} => ~profLoading)
    /\ [](user = NoUser => (~isLoading /\ ~profLoading))
    /\ (isLoading ~> ~isLoading)
    /\ (profLoading ~> ~profLoading)
    /\ (loads # {} ~> loads = {})
    /\ (profLoads # {} ~> profLoads = {})

\* principal A, who owns two remote events and a profile, is signed in and
\* both providers are ready with nothing loaded: the reads failed or were
\* rejected, and the loads completed all the same
C13_Witness ==
    /\ configured
    /\ user = "A"
    /\ ops = 1
    /\ loads = {} /\ profLoads = {}
    /\ ~isLoading /\ ~profLoading
    /\ records = <<>>
    /\ babyName = ""

\* C18: the remote store never holds two profiles of one principal and the
\* device holds one profile item at most; a save whose principal is still
\* the session's principal inserts a row keyed by that principal when the
\* principal has none and otherwise changes the principal's row in place,
\* also when two saves are in flight at once; the in-memory name and birth
\* date change in a save only when it returned a result, to the saved values.
C18_ProfileUpsert ==
    /\ [](\A u \in Users : Cardinality(VisibleProfiles(u)) <= 1)
    /\ [][\A c \in profSaves :
             (SaveWrite(c) /\ session = c.uid /\ profTable' # profTable) =>
                IF VisibleProfiles(c.uid) = {}
                THEN \E row \in profTable' :
                        /\ profTable' = profTable \cup {row}
                        /\ row.user_id = c.uid
                        /\ row.name = c.profile.name
                        /\ row.birth_date = c.profile.birthDate
                ELSE \E old \in VisibleProfiles(c.uid) :
                        profTable' = (profTable \ {old}) \cup
                            {[old EXCEPT !.name = c.profile.name,
                                         !.birth_date = c.profile.birthDate]}]_vars
    /\ [][\A c \in profSaves :
             SaveResolve(c) =>
                IF c.result = Null
                THEN UNCHANGED <<babyName, birthDate>>
                ELSE /\ babyName' = c.profile.name
                     /\ birthDate' = c.profile.birthDate]_vars
    /\ [][\A profile \in Profiles :
             (updateBabyProfile(profile) /\ ~configured) =>
                /\ getProfileFromStorage(profStore') # Null
                /\ Val(getProfileFromStorage(profStore')).name = profile.name
                /\ babyName' = profile.name
                /\ birthDate' = profile.birthDate]_vars

\* two saves of principal B were in flight at once: the first has inserted
\* B's profile, the second found none and is about to insert
C18_Witness ==
    /\ user = "B"
    /\ Cardinality(VisibleProfiles("B")) = 1
    /\ \E c \in profSaves :
          /\ c.stage = "write"
          /\ c.uid = "B"
          /\ c.existing = Null
          /\ \E row \in VisibleProfiles("B") : row.name # c.profile.name

\* C14: a failed remote list read answers with the content of the local
\* fallback storage, and that storage is the cache of the last successful
\* fetch: once a remote list has answered with rows, the local storage holds
\* those entities, so that a failed list right after it returns them.
C14_FailedListReturnsLastFetch ==
    [][/\ \A l \in loads : \A seq \in RowSeqs(VisibleRows(l.token)) :
             ( /\ LoadServe(l)
               /\ IsOrdered(seq, VisibleRows(l.token))
               /\ loads' = (loads \ {l}) \cup
                    {[l EXCEPT !.stage = "ok",
                               !.data = MapSeq(seq, dbToFeedRecord)]} ) =>
                getFromStorage(feedStore') = MapSeq(seq, dbToFeedRecord)
       /\ \A l \in remLoads : \A seq \in RowSeqs(VisibleReminders(l.token)) :
             ( /\ RemLoadServe(l)
               /\ IsNewestFirst(seq, VisibleReminders(l.token))
               /\ remLoads' = (remLoads \ {l}) \cup
                    {[l EXCEPT !.stage = "ok",
                               !.data = MapSeq(seq, dbToReminder)]} ) =>
                getFromStorage(remStore') = MapSeq(seq, dbToReminder)]_vars

\* ------------------------------------------- field translation (auth.ts)
\* An optional field is Null when absent (reads as undefined) and <<v>> when
\* present.
Optional(values) == {Null} \cup {Some(v) : v \in values}

RecordTypes == {"breast", "bottle", "diaper", "sleep", "pump"}

\* FeedRecord of src/types.ts: every kind with every optional field present
\* or absent; present numbers and flags include the falsy 0 and false
FeedRecords ==
    [id : {"1"},
     type : RecordTypes,
     startTime : {"2024-01-01T08:00:00.000Z"},
     date : {"today", "yesterday"},
     note : Optional({"n"}),
     side : Optional({"left", "right"}),
     durationMinutes : Optional({1}),
     durationSeconds : Optional({0}),
     amountMl : Optional({0, 60}),
     isSnack : Optional(BOOLEAN),
     diaperType : Optional({"wet"}),
     diaperAmount : Optional({"small"}),
     endTime : Optional({"2024-01-01T09:00:00.000Z"})]

\* row.date || <the label for today>, written "today" here: an empty label
\* reads as the default (date is a required string of FeedRecord)
DateOrToday(date) == IF date = "" THEN "today" ELSE date

\* a translation that reads the snack flag through ||, losing false
dbToFeedRecordAllLosingFalse(row) ==
    [id |-> row.id,
     type |-> row.type,
     startTime |-> row.start_time,
     date |-> DateOrToday(row.date),
     note |-> row.note,
     side |-> row.side,
     durationMinutes |-> row.duration_minutes,
     durationSeconds |-> row.duration_seconds,
     amountMl |-> row.amount_ml,
     isSnack |-> IF row.is_snack = Some(FALSE) THEN Null ELSE row.is_snack,
     diaperType |-> row.diaper_type,
     diaperAmount |-> row.diaper_amount,
     endTime |-> row.end_time]

\* dbToFeedRecord with all its columns (lines 205-221)
dbToFeedRecordAll(row) ==
    [id |-> row.id,
     type |-> row.type,
     startTime |-> row.start_time,
     date |-> DateOrToday(row.date),
     note |-> row.note,
     side |-> row.side,
     durationMinutes |-> row.duration_minutes,
     durationSeconds |-> row.duration_seconds,
     amountMl |-> row.amount_ml,
     isSnack |-> row.is_snack,
     diaperType |-> row.diaper_type,
     diaperAmount |-> row.diaper_amount,
     endTime |-> row.end_time]

\* feedRecordToDb with all its columns (lines 224-240)
feedRecordToDbAll(record) ==
    [id |-> record.id,
     type |-> record.type,
     start_time |-> record.startTime,
     date |-> record.date,
     note |-> record.note,
     side |-> record.side,
     duration_minutes |-> record.durationMinutes,
     duration_seconds |-> record.durationSeconds,
     amount_ml |-> record.amountMl,
     is_snack |-> record.isSnack,
     diaper_type |-> record.diaperType,
     diaper_amount |-> record.diaperAmount,
     end_time |-> record.endTime]

\* an entity goes to the remote schema and back
Translate ==
    /\ res = Null
    /\ res' = Some(dbToFeedRecordAll(feedRecordToDbAll(arg)))
    /\ UNCHANGED arg
    /\ FormsIdle
    /\ TimerStill
    /\ UNCHANGED profVars
    /\ UNCHANGED recVars

XlateInit ==
    /\ AsConstructed
    /\ arg \in FeedRecords
    /\ res = Null
    /\ FormsUnused

XlateSpec == XlateInit /\ [][Translate]_vars

\* C15: for every kind and every optional field present or absent,
\* dbToFeedRecord(feedRecordToDb(entity)) has the fields of entity.
C15_RoundTrip == res # Null => Val(res) = arg

\* a pump event without note whose amount is 0 and whose snack flag is false
\* has made the round trip
C15_Witness ==
    /\ res # Null
    /\ arg.type = "pump"
    /\ arg.note = Null
    /\ arg.amountMl = Some(0)
    /\ arg.isSnack = Some(FALSE)

\* ------------------------------------- StatsView.chartData (weekly average)
\* number of events in the record list handed to the statistics
MaxEvents == 3

\* the loop "for (let i = 6; i >= 0; i--)": the trailing days looked at
WindowDays == 7

\* Math.round(a / b) for a >= 0, b > 0: the nearest integer, halves upwards
RoundDiv(a, b) == (2 * a + b) \div (2 * b)

\* !r.isSnack and r.amountMl || 0 on an optional field
IsSnack(r) == r.isSnack = Some(TRUE)
AmountOrZero(r) == IF r.amountMl = Null THEN 0 ELSE Val(r.amountMl)

\* an event as the statistics read it: its kind, the calendar day of its
\* startTime counted back from today (0 = today), amountMl and isSnack
StatEvents ==
    [type : {"bottle", "pump"},
     daysAgo : {0, WindowDays - 1, WindowDays},
     amountMl : {Some(100), Some(101)},
     isSnack : Optional({TRUE})]

RECURSIVE SeqsUpTo(_, _)
SeqsUpTo(S, n) ==
    IF n = 0 THEN {<<>>}
    ELSE LET shorter == SeqsUpTo(S, n - 1) IN
         shorter \cup {Append(q, e) : q \in shorter, e \in S}

\* records.filter(r => r.type === 'bottle' && isSameDay(r.startTime, d)
\*                     && !r.isSnack), d being i days before today
RECURSIVE dayRecords(_, _)
dayRecords(recs, i) ==
    IF recs = <<>> THEN <<>>
    ELSE LET r == Head(recs) IN
         IF r.type = "bottle" /\ r.daysAgo = i /\ ~IsSnack(r)
         THEN <<r>> \o dayRecords(Tail(recs), i)
         ELSE dayRecords(Tail(recs), i)

\* dayRecords.reduce((sum, r) => sum + (r.amountMl || 0), 0)
RECURSIVE daySum(_)
daySum(recs) ==
    IF recs = <<>> THEN 0 ELSE AmountOrZero(Head(recs)) + daySum(Tail(recs))

\* the loop of chartData from day i down to today: the running totals and
\* the daily averages pushed so far
RECURSIVE WeekLoop(_, _, _)
WeekLoop(recs, i, acc) ==
    IF i < 0 THEN acc
    ELSE LET day == dayRecords(recs, i)
             dayCount == Len(day)
             dayAvg == IF dayCount > 0 THEN RoundDiv(daySum(day), dayCount)
                       ELSE 0
         IN  WeekLoop(recs, i - 1,
                 [totalWeekAmount |-> acc.totalWeekAmount + daySum(day),
                  totalWeekCount |-> acc.totalWeekCount + dayCount,
                  data |-> Append(acc.data, dayAvg)])

WeekTotals(recs) ==
    WeekLoop(recs, WindowDays - 1,
             [totalWeekAmount |-> 0, totalWeekCount |-> 0, data |-> <<>>])

\* a weekly average taken as the average of the days' averages
chartDataAveragingDays(recs) ==
    LET w == WeekTotals(recs)
        used == {k \in 1..Len(w.data) : dayRecords(recs, WindowDays - k) # <<>>}
        Total[k \in 0..Len(w.data)] ==
            IF k = 0 THEN 0
            ELSE Total[k - 1] + (IF k \in used THEN w.data[k] ELSE 0)
    IN  [data |-> w.data,
         weeklyAvg |-> IF used # {}
                       THEN RoundDiv(Total[Len(w.data)], Cardinality(used))
                       ELSE 0]

\* chartData (part_003 lines 120-154)
chartData(recs) ==
    LET w == WeekTotals(recs) IN
    [data |-> w.data,
     weeklyAvg |-> IF w.totalWeekCount > 0
                   THEN RoundDiv(w.totalWeekAmount, w.totalWeekCount)
                   ELSE 0]

\* the statistics view renders for the record list arg
ComputeChart ==
    /\ res = Null
    /\ res' = Some(chartData(arg))
    /\ UNCHANGED arg
    /\ FormsIdle
    /\ TimerStill
    /\ UNCHANGED profVars
    /\ UNCHANGED recVars

StatsInit ==
    /\ AsConstructed
    /\ arg \in SeqsUpTo(StatEvents, MaxEvents)
    /\ res = Null
    /\ FormsUnused

StatsSpec == StatsInit /\ [][ComputeChart]_vars

\* the events of the kinds in K that are not snacks and lie in the trailing
\* 7 calendar days including today, and the total of their amounts
InWeek(recs, K) ==
    {k \in 1..Len(recs) : /\ recs[k].type \in K
                          /\ recs[k].daysAgo \in 0..(WindowDays - 1)
                          /\ ~IsSnack(recs[k])}

RECURSIVE TotalOf(_, _)
TotalOf(recs, idx) ==
    IF idx = {} THEN 0
    ELSE LET k == CHOOSE k \in idx : TRUE IN
         AmountOrZero(recs[k]) + TotalOf(recs, idx \ {k})

\* C16 as stated: the weekly average times the number of non-snack
\* bottle/pump events of the trailing 7 days is the total of their amounts,
\* and the average is 0 when there is no such event.
C16_WeeklyAverageBottlePump ==
    res # Null =>
       LET idx == InWeek(arg, {"bottle", "pump"}) IN
       IF idx = {} THEN Val(res).weeklyAvg = 0
       ELSE Val(res).weeklyAvg * Cardinality(idx) = TotalOf(arg, idx)

\* C16 amended: the weekly average is the quotient, rounded to the nearest
\* integer (halves upwards), of the total amountMl of the non-snack bottle
\* events of the trailing 7 days including today by their count, 0 when
\* there is none; pump events and snack-flagged events change neither.
C16_WeeklyAverageBottleRounded ==
    res # Null =>
       LET idx == InWeek(arg, {"bottle"})
           n == Cardinality(idx)
           avg == Val(res).weeklyAvg
       IN  IF idx = {} THEN avg = 0
           ELSE /\ 2 * n * avg <= 2 * TotalOf(arg, idx) + n
                /\ 2 * TotalOf(arg, idx) + n < 2 * n * (avg + 1)

\* bottle events of 100 and 101 ml today and one of 100 ml on the first day
\* of the window: the average is 301 / 3 rounded, 100, where the average of
\* the two days' averages would be 101
C16_Witness ==
    /\ res # Null
    /\ Len(arg) = 3
    /\ \A k \in 1..3 : arg[k].type = "bottle" /\ arg[k].isSnack = Null
    /\ arg[1].daysAgo = WindowDays - 1 /\ arg[1].amountMl = Some(100)
    /\ arg[2].daysAgo = 0 /\ arg[2].amountMl = Some(100)
    /\ arg[3].daysAgo = 0 /\ arg[3].amountMl = Some(101)
    /\ Val(res).weeklyAvg = 100

\* ------------------------------------------------- GrowthView.ageLabel
\* the time between birth date and now is counted in half days, so that
\* ages that are not whole days occur; the largest age explored
MaxHalfDays == 200

HalfDaysPerDay == 2
DaysPerWeek == 7
\* the 30 of "diffDays < 30"
MonthThreshold == 30
\* 30.44 days per month, in hundredths of a day
CentiDaysPerMonth == 3044
CentiPerDay == 100

\* Math.ceil(diffTime / (1000 * 60 * 60 * 24)), diffTime in half days
diffDays(halfDays) == CeilDiv(halfDays, HalfDaysPerDay)

\* an age label computed with months of 30 days
ageLabelThirtyDayMonths(birth) ==
    IF birth = Null THEN [unit |-> "none", n |-> 0, weeks |-> 0]
    ELSE LET d == diffDays(Val(birth)) IN
         IF d < MonthThreshold
         THEN IF d \div DaysPerWeek < 1
              THEN [unit |-> "days", n |-> d, weeks |-> 0]
              ELSE [unit |-> "weeks", n |-> d \div DaysPerWeek, weeks |-> 0]
         ELSE [unit |-> "months", n |-> d \div MonthThreshold,
               weeks |-> (d % MonthThreshold) \div DaysPerWeek]

\* ageLabel (part_002 lines 80-98): "" without birth date, else the day
\* count, the week count, or the months with the remaining weeks (the label
\* shows the weeks when they are > 0)
ageLabel(birth) ==
    IF birth = Null THEN [unit |-> "none", n |-> 0, weeks |-> 0]
    ELSE LET d == diffDays(Val(birth)) IN
         IF d < MonthThreshold
         THEN LET weeks == d \div DaysPerWeek IN
              IF weeks < 1 THEN [unit |-> "days", n |-> d, weeks |-> 0]
              ELSE [unit |-> "weeks", n |-> weeks, weeks |-> 0]
         ELSE LET months == (CentiPerDay * d) \div CentiDaysPerMonth
                  remainingCentiDays == CentiPerDay * d
                                          - months * CentiDaysPerMonth
              IN  [unit |-> "months", n |-> months,
                   weeks |-> remainingCentiDays
                                \div (CentiPerDay * DaysPerWeek)]

\* the growth view renders for a birth date arg (Null: none set)
ComputeAge ==
    /\ res = Null
    /\ res' = Some(ageLabel(arg))
    /\ UNCHANGED arg
    /\ FormsIdle
    /\ TimerStill
    /\ UNCHANGED profVars
    /\ UNCHANGED recVars

AgeInit ==
    /\ AsConstructed
    /\ arg \in Optional(0..MaxHalfDays)
    /\ res = Null
    /\ FormsUnused

AgeSpec == AgeInit /\ [][ComputeAge]_vars

C19_NullPrincipalClearsAll ==
    [][(user # NoUser /\ user' = NoUser) =>
          /\ records' = <<>>
          /\ babyName' = "" /\ birthDate' = ""
          /\ reminderList' = <<>>]_vars

\* ------------------------------------------- loading a damaged device
\* the text of the item 'babytracker_local_user' when JSON.parse rejects it
CorruptText == "corrupt"

\* getLocalUser (auth.ts lines 12-19): the stored user, null when the item
\* is absent or JSON.parse throws
getLocalUser(stored) == IF stored \in Users THEN stored ELSE NoUser

\* the device's storage is damaged from outside the program: the timer
\* snapshot, the feed-record list or the local user becomes unparseable
DamageTimerSnapshot ==
    /\ timerStorage # Corrupt
    /\ timerStorage' = Corrupt
    /\ RecIdle
    /\ UNCHANGED <<now, isRunning, startTimestamp, pausedSeconds, selectedSide,
                   renderTrigger, elapsedSeconds, visible, rehydrated, callLog>>

DamageFeedRecords ==
    /\ ~MicrotaskPending
    /\ feedStore # Corrupt
    /\ feedStore' = Corrupt
    /\ RecFrame
    /\ UNCHANGED <<user, session, records, isLoading, feedTable, loads, creates,
                   updates, deletes, nextUuid, adds, ops>>

DamageLocalUser ==
    /\ ~MicrotaskPending
    /\ session # CorruptText
    /\ session' = CorruptText
    /\ RecFrame
    /\ UNCHANGED <<user, records, isLoading, feedTable, feedStore, loads,
                   creates, updates, deletes, nextUuid, adds, ops>>

\* the page is loaded on a device without Supabase: TimerProvider is
\* constructed from the snapshot (lines 24-42), AuthProvider's initAuth sets
\* the stored local user, and the effects of RecordsProvider and
\* BabyProvider run for that principal; the reminders view is not mounted
PageLoad ==
    /\ ~MicrotaskPending
    /\ ~configured
    /\ ops < MaxOps
    /\ ops' = ops + 1
    /\ LET st == InitialState(timerStorage) IN
         /\ isRunning' = st.isRunning
         /\ startTimestamp' = st.startTimestamp
         /\ pausedSeconds' = st.pausedSeconds
         /\ selectedSide' = st.selectedSide
         /\ elapsedSeconds' = ElapsedAt(st.isRunning, st.startTimestamp,
                                        st.pausedSeconds, now)
         /\ timerStorage' = Stringify(st.isRunning, st.startTimestamp,
                                      st.pausedSeconds, st.selectedSide)
    /\ renderTrigger' = 0
    /\ visible' = TRUE
    /\ rehydrated' = TRUE
    /\ user' = getLocalUser(session)
    /\ UNCHANGED session
    /\ loadRecords(user')
    /\ loadProfile(user')
    /\ creates' = {}
    /\ updates' = {}
    /\ deletes' = {}
    /\ reminderList' = <<>>
    /\ remMounted' = FALSE
    /\ remLoads' = {}
    /\ remCreates' = {}
    /\ remDeletes' = {}
    /\ PureIdle
    /\ UNCHANGED <<now, callLog, configured, feedTable, feedStore, nextUuid,
                   remTable, remStore, rems, edits, adds, profTable, profStore,
                   profSaves>>

RecoverNext ==
    \/ Advance
    \/ startTimer
    \/ DamageTimerSnapshot
    \/ DamageFeedRecords
    \/ DamageLocalUser
    \/ PageLoad
    \/ \E l \in loads : LoadResolve(l)
    \/ \E l \in profLoads : ProfLoadResolve(l)

\* a device on which principal A used the program before: A is the stored
\* local user and two feed events are stored; the page has not loaded yet
RecoverInit ==
    /\ TimerInit
    /\ configured = FALSE
    /\ user = NoUser
    /\ session = "A"
    /\ records = <<>>
    /\ isLoading = FALSE
    /\ feedTable = {}
    /\ feedStore = saveToStorage(<<OldRecord(1), OldRecord(2)>>)
    /\ loads = {}
    /\ creates = {}
    /\ updates = {}
    /\ deletes = {}
    /\ nextUuid = 0
    /\ reminderList = <<>>
    /\ remTable = {}
    /\ remStore = NoItem
    /\ remMounted = FALSE
    /\ remLoads = {}
    /\ remCreates = {}
    /\ remDeletes = {}
    /\ rems = 0
    /\ edits = 0
    /\ adds = 0
    /\ ops = 0
    /\ babyName = ""
    /\ birthDate = ""
    /\ profLoading = FALSE
    /\ profTable = {}
    /\ profStore = NoItem
    /\ profLoads = {}
    /\ profSaves = {}
    /\ PureUnused

RecoverSpec == RecoverInit /\ [][RecoverNext]_vars

\* C20: a page load that finds an unparseable timer snapshot constructs the
\* timer (not running, null, 0); one that finds an unparseable local user
\* has the principal null; one that finds an unparseable feed-record list
\* gets the empty list from the adapter, nothing is thrown, and the
\* collection stays empty when the load completes.
C20_CorruptStateRecovered ==
    /\ [][PageLoad =>
            /\ timerStorage = Corrupt =>
                  /\ isRunning' = FALSE
                  /\ startTimestamp' = Null
                  /\ pausedSeconds' = 0
                  /\ elapsedSeconds' = 0
            /\ session = CorruptText => user' = NoUser
            /\ feedStore = Corrupt =>
                  /\ records' = <<>>
                  /\ \A l \in loads' :
                        l.stage = "ok" /\ l.data = <<>>]_vars
    /\ [][\A l \in loads :
            (LoadResolve(l) /\ feedStore = Corrupt) =>
               (records' = <<>> /\ ~isLoading')]_vars
    /\ [](\A l \in loads : l.stage # "thrown")

\* the page was loaded with the snapshot of a running timer and the
\* feed-record list both unparseable: the timer is stopped at 0 although
\* its last call was a start, and A's collection has loaded empty
C20_Witness ==
    /\ rehydrated
    /\ callLog # <<>>
    /\ callLog[Len(callLog)].op = "start"
    /\ ~isRunning
    /\ elapsedSeconds = 0
    /\ user = "A"
    /\ feedStore = Corrupt
    /\ loads = {}
    /\ ~isLoading
    /\ records = <<>>

\* ------------------------------------------------- LoginModal.handleSubmit
\* number of signIn / signUp calls explored
MaxCalls == 2

\* password.length < 6
MinPasswordLen == 6

\* texts are sequences of characters
Chars(c, n) == [i \in 1..n |-> c]

\* what a caregiver types: nothing, blanks only, an address, an address
\* between blanks
Emails == {<<>>, <<" ">>, <<"a">>, <<" ", "a", " ">>}

\* nothing, too short by one, and two passwords that are long enough
Passwords == {<<>>, Chars("x", MinPasswordLen - 1), Chars("x", MinPasswordLen),
              Chars("y", MinPasswordLen)}

\* String.prototype.trim
RECURSIVE TrimLeft(_)
TrimLeft(t) ==
    IF t # <<>> /\ Head(t) = " " THEN TrimLeft(Tail(t)) ELSE t

RECURSIVE TrimRight(_)
TrimRight(t) ==
    IF t # <<>> /\ t[Len(t)] = " "
    THEN TrimRight(SubSeq(t, 1, Len(t) - 1)) ELSE t

Trim(t) == TrimRight(TrimLeft(t))

\* the form as LoginModal constructs it and as resetForm leaves it
EmptyForm(isRegister) ==
    [isRegister |-> isRegister, email |-> <<>>, password |-> <<>>,
     confirmPassword |-> <<>>, error |-> "", isLoading |-> FALSE]

\* what a step of the login form leaves alone
LoginFrame ==
    /\ TimerStill
    /\ RemIdle
    /\ UNCHANGED profVars
    /\ UNCHANGED <<arg, res>>
    /\ UNCHANGED <<now, configured, user, session, records, isLoading,
                   feedTable, feedStore, loads, creates, updates, deletes,
                   nextUuid, edits, adds, ops>>

setEmail(e) ==
    /\ form' = [form EXCEPT !.email = e]
    /\ UNCHANGED authCalls
    /\ LoginFrame

setPassword(pw) ==
    /\ form' = [form EXCEPT !.password = pw]
    /\ UNCHANGED authCalls
    /\ LoginFrame

setConfirmPassword(pw) ==
    /\ form' = [form EXCEPT !.confirmPassword = pw]
    /\ UNCHANGED authCalls
    /\ LoginFrame

\* toggleMode: the other mode, with the form reset
toggleMode ==
    /\ form' = EmptyForm(~form.isRegister)
    /\ UNCHANGED authCalls
    /\ LoginFrame

\* the message handleSubmit's validation ends with, "" when the input passes
ValidationErrorSkippingLength(f) ==
    IF Trim(f.email) = <<>> THEN "enter email"
    ELSE IF f.password = <<>> THEN "enter password"
    ELSE IF f.isRegister /\ f.password # f.confirmPassword
         THEN "passwords differ"
    ELSE ""

ValidationError(f) ==
    IF Trim(f.email) = <<>> THEN "enter email"
    ELSE IF f.password = <<>> THEN "enter password"
    ELSE IF Len(f.password) < MinPasswordLen THEN "password too short"
    ELSE IF f.isRegister /\ f.password # f.confirmPassword
         THEN "passwords differ"
    ELSE ""

\* handleSubmit up to its await (lines 1229-1251): the error is cleared, the
\* input is validated, and only valid input reaches signUp / signIn
handleSubmit ==
    /\ user = NoUser
    /\ ~form.isLoading
    /\ IF ValidationError(form) # ""
       THEN /\ form' = [form EXCEPT !.error = ValidationError(form)]
            /\ UNCHANGED authCalls
       ELSE /\ Len(authCalls) < MaxCalls
            /\ form' = [form EXCEPT !.error = "", !.isLoading = TRUE]
            /\ authCalls' = Append(authCalls,
                    [call |-> IF form.isRegister THEN "signUp" ELSE "signIn",
                     email |-> Trim(form.email),
                     password |-> form.password])
    /\ LoginFrame

\* the call is answered with an error (Supabase only): handleSubmit shows
\* the message (lines 1253-1258)
AuthRejected ==
    /\ form.isLoading
    /\ configured
    /\ form' = [form EXCEPT !.error = "rejected", !.isLoading = FALSE]
    /\ UNCHANGED authCalls
    /\ LoginFrame

\* the call is answered with the user u: AuthProvider sets the principal and
\* the providers' effects run (AuthContext lines 49-66)
AuthAccepted(u) ==
    /\ form.isLoading
    /\ ~MicrotaskPending
    /\ form' = [form EXCEPT !.isLoading = FALSE]
    /\ UNCHANGED authCalls
    /\ session' = u
    /\ user' = u
    /\ loadRecords(u)
    /\ loadProfile(u)
    /\ creates' = Disturbed(creates)
    /\ TimerStill
    /\ RemIdle
    /\ UNCHANGED <<arg, res>>
    /\ UNCHANGED <<now, configured, feedTable, feedStore, updates, deletes,
                   nextUuid, edits, adds, ops, profTable, profStore, profSaves>>

LoginNext ==
    \/ \E e \in Emails : setEmail(e)
    \/ \E pw \in Passwords : setPassword(pw)
    \/ \E pw \in Passwords : setConfirmPassword(pw)
    \/ toggleMode
    \/ handleSubmit
    \/ AuthRejected
    \/ \E u \in Users : AuthAccepted(u)

\* nobody is signed in and the login modal is open
LoginInit ==
    /\ TimerInit
    /\ configured \in BOOLEAN
    /\ user = NoUser
    /\ session = NoUser
    /\ records = <<>>
    /\ isLoading = FALSE
    /\ feedTable = {}
    /\ feedStore = NoItem
    /\ loads = {}
    /\ creates = {}
    /\ updates = {}
    /\ deletes = {}
    /\ nextUuid = 0
    /\ reminderList = <<>>
    /\ remTable = {}
    /\ remStore = NoItem
    /\ remMounted = FALSE
    /\ remLoads = {}
    /\ remCreates = {}
    /\ remDeletes = {}
    /\ rems = 0
    /\ edits = 0
    /\ adds = 0
    /\ ops = 0
    /\ babyName = ""
    /\ birthDate = ""
    /\ profLoading = FALSE
    /\ profTable = {}
    /\ profStore = NoItem
    /\ profLoads = {}
    /\ profSaves = {}
    /\ arg = Null
    /\ res = Null
    /\ form = EmptyForm(FALSE)
    /\ authCalls = <<>>

LoginSpec == LoginInit /\ [][LoginNext]_vars

\* the form's input is invalid: no email besides blanks, no password, a
\* password of fewer than 6 characters, or, registering, a confirmation
\* that differs
InvalidInput(f) ==
    \/ Trim(f.email) = <<>>
    \/ f.password = <<>>
    \/ Len(f.password) < 6
    \/ f.isRegister /\ f.confirmPassword # f.password

\* C21: a submit with invalid input sets an error message in the same step,
\* makes no signIn / signUp call and leaves the principal as it was.
C21_InvalidSubmitMakesNoCall ==
    [][(handleSubmit /\ InvalidInput(form)) =>
          /\ form'.error # ""
          /\ ~form'.isLoading
          /\ authCalls' = authCalls
          /\ user' = user /\ session' = session]_vars

\* after one accepted call was made and rejected, a registration with a
\* good password and a differing confirmation was submitted: the error
\* shows and the only call is the earlier one
C21_Witness ==
    /\ form.isRegister
    /\ Len(form.password) = 6
    /\ form.confirmPassword # form.password
    /\ Trim(form.email) # <<>>
    /\ form.error = "passwords differ"
    /\ Len(authCalls) = 1
    /\ user = NoUser

\* ------------------------------------------------- the order of a list
\* a start time the caregiver chooses in the quick-add or the edit form:
\* earlier than every stored event
EarlierTime == 0

\* principal A is signed in and the collection has loaded
ListInit ==
    /\ TimerInit
    /\ configured \in BOOLEAN
    /\ user = "A"
    /\ session = "A"
    /\ records = IF configured
                 THEN <<dbToFeedRecord(OldRow(1)), dbToFeedRecord(OldRow(2))>>
                 ELSE <<OldRecord(1), OldRecord(2)>>
    /\ isLoading = FALSE
    /\ feedTable = IF configured THEN {OldRow(1), OldRow(2)} ELSE {}
    /\ feedStore = IF configured THEN NoItem
                   ELSE saveToStorage(<<OldRecord(1), OldRecord(2)>>)
    /\ loads = {}
    /\ creates = {}
    /\ updates = {}
    /\ deletes = {}
    /\ nextUuid = IF configured THEN 2 ELSE 0
    /\ reminderList = <<>>
    /\ remTable = {}
    /\ remStore = NoItem
    /\ remMounted = FALSE
    /\ remLoads = {}
    /\ remCreates = {}
    /\ remDeletes = {}
    /\ rems = 0
    /\ edits = 0
    /\ adds = 0
    /\ ops = 0
    /\ babyName = ""
    /\ birthDate = ""
    /\ profLoading = FALSE
    /\ profTable = {}
    /\ profStore = NoItem
    /\ profLoads = {}
    /\ profSaves = {}
    /\ PureUnused

\* creates and edits with a chosen start time, and the lists that follow
ListNext ==
    \/ Tick
    \/ \E a \in NewAmounts, t \in {now, EarlierTime} : addRecordAt(a, t)
    \/ \E c \in creates : CreateServe(c)
    \/ \E c \in creates : CreateResolve(c)
    \/ \E e \in KnownRecords :
           updateRecord(e.id, [e EXCEPT !.startTime = EarlierTime])
    \/ \E u \in updates : UpdateSettle(u)
    \/ authEvent
    \/ PageLoad
    \/ \E l \in loads : LoadServe(l)
    \/ \E l \in loads : LoadResolve(l)
    \/ \E l \in profLoads : ProfLoadResolve(l)

ListSpec == ListInit /\ [][ListNext]_vars

\* a list that is most-recent-first by start timestamp
MostRecentFirst(list) ==
    \A i \in 1..(Len(list) - 1) : list[i].startTime >= list[i + 1].startTime

\* C22: what getFeedRecords returns is most-recent-first by start timestamp,
\* with the remote store and with the local store, after creates with a
\* chosen earlier time and updates of the start time.
C22_ListMostRecentFirst ==
    \A l \in loads : l.stage = "ok" => MostRecentFirst(l.data)

\* ----------------------------------------- a session that is under way
\* the record store from a state in which principal A is signed in and the
\* collection has loaded
SignedInSpec == ListInit /\ [][RecNext]_vars

\* C23: the row a remote create inserts carries the id of the principal
\* whose addRecord issued the create, never null and never another
\* principal's, also when the principal changed while the create was in
\* flight.
C23_RowTaggedWithIssuer ==
    [][\A c \in creates :
          CreateServe(c) =>
             \A row \in feedTable' \ feedTable : row.user_id = c.by]_vars

\* ------------------------------------- RemindersView: the reminder form
MsPerHour == 3600000
MsPerMinute == 60000
\* the steps of the - / + buttons of the two delay inputs
HourStep == 1
MinuteStep == 10
\* the delays handleOpenModal sets
FeedDelayHours == 3
DiaperDelayHours == 2

\* a delay input holds a number (as <<n>>) or the empty text (as Null)
\* getSafeDelay / the buttons' "val": the number, 0 for the empty text
DelayValue(d) == IF d = Null THEN 0 ELSE Val(d)

\* a - button without Math.max(0, ...)
DecrementUnclamped(d, step) == Some(DelayValue(d) - step)

\* the - button: Math.max(0, val - step)
Decrement(d, step) ==
    LET val == DelayValue(d) IN Some(IF val - step > 0 THEN val - step ELSE 0)

\* the + button: val + step
Increment(d, step) == Some(DelayValue(d) + step)

\* what a caregiver types into a delay input: nothing, text that parseInt
\* does not read, or a number, negative ones included
TypedTexts ==
    {[kind |-> "empty", n |-> 0], [kind |-> "nan", n |-> 0],
     [kind |-> "num", n |-> 0 - 1], [kind |-> "num", n |-> 0],
     [kind |-> "num", n |-> 45]}

\* onChange of a delay input: '' is kept, a number is clamped at 0, other
\* text changes nothing
Typed(d, text) ==
    IF text.kind = "empty" THEN Null
    ELSE IF text.kind = "nan" THEN d
    ELSE Some(IF text.n > 0 THEN text.n ELSE 0)

\* the events of the record list as the reminders view reads them
RemEvents ==
    [id : {1}, type : {"bottle", "diaper", "pump"},
     startTime : {ClockStep - 1, ClockStep - 2}]

\* lastFeedRecord / lastDiaperRecord: the first of the relevant events
\* sorted by startTime descending, Null when there is none
RelevantTo(type) == IF type = "feed" THEN {"breast", "bottle"} ELSE {"diaper"}

LastRecord(recs, type) ==
    LET idx == {i \in 1..Len(recs) : recs[i].type \in RelevantTo(type)} IN
    IF idx = {} THEN Null
    ELSE Some(recs[CHOOSE i \in idx :
                     \A j \in idx : recs[i].startTime >= recs[j].startTime])

\* getBaseTime
getBaseTime(recs, type, t) ==
    IF LastRecord(recs, type) # Null
    THEN Val(LastRecord(recs, type)).startTime ELSE t

\* calculateTargetTime
calculateTargetTime(recs, f, t) ==
    getBaseTime(recs, f.activeModal, t)
        + DelayValue(f.delayHours) * MsPerHour
        + DelayValue(f.delayMinutes) * MsPerMinute

\* what a step of the reminder form leaves alone
RemFormFrame ==
    /\ TimerStill
    /\ UNCHANGED profVars
    /\ UNCHANGED <<arg, res, authCalls>>
    /\ UNCHANGED <<now, configured, user, session, records, isLoading,
                   feedTable, feedStore, loads, creates, updates, deletes,
                   nextUuid, edits, adds, remTable, remMounted, remLoads,
                   remCreates, remDeletes>>

\* one more action on the form
FormStep ==
    /\ ops < MaxOps
    /\ ops' = ops + 1

handleOpenModal(type) ==
    /\ form.activeModal = "none"
    /\ FormStep
    /\ form' = [activeModal |-> type,
                delayHours |-> Some(IF type = "feed" THEN FeedDelayHours
                                    ELSE DiaperDelayHours),
                delayMinutes |-> Some(0)]
    /\ RemFormFrame
    /\ UNCHANGED <<reminderList, remStore, rems>>

\* the - and + buttons and the inputs of the hours and of the minutes
HoursMinus ==
    /\ form.activeModal # "none"
    /\ FormStep
    /\ form' = [form EXCEPT !.delayHours = Decrement(@, HourStep)]
    /\ RemFormFrame
    /\ UNCHANGED <<reminderList, remStore, rems>>

HoursPlus ==
    /\ form.activeModal # "none"
    /\ FormStep
    /\ form' = [form EXCEPT !.delayHours = Increment(@, HourStep)]
    /\ RemFormFrame
    /\ UNCHANGED <<reminderList, remStore, rems>>

HoursTyped(text) ==
    /\ form.activeModal # "none"
    /\ FormStep
    /\ form' = [form EXCEPT !.delayHours = Typed(@, text)]
    /\ RemFormFrame
    /\ UNCHANGED <<reminderList, remStore, rems>>

MinutesMinus ==
    /\ form.activeModal # "none"
    /\ FormStep
    /\ form' = [form EXCEPT !.delayMinutes = Decrement(@, MinuteStep)]
    /\ RemFormFrame
    /\ UNCHANGED <<reminderList, remStore, rems>>

MinutesPlus ==
    /\ form.activeModal # "none"
    /\ FormStep
    /\ form' = [form EXCEPT !.delayMinutes = Increment(@, MinuteStep)]
    /\ RemFormFrame
    /\ UNCHANGED <<reminderList, remStore, rems>>

MinutesTyped(text) ==
    /\ form.activeModal # "none"
    /\ FormStep
    /\ form' = [form EXCEPT !.delayMinutes = Typed(@, text)]
    /\ RemFormFrame
    /\ UNCHANGED <<reminderList, remStore, rems>>

\* handleSaveReminder (lines 146-172) of the open form, on a device without
\* Supabase: the reminder with its scheduledTime is put first, stored by
\* createReminder (auth.ts lines 439-445), and the modal closes
handleSaveReminderForm ==
    /\ form.activeModal # "none"
    /\ ~configured
    /\ FormStep
    /\ rems < MaxRems
    /\ rems' = rems + 1
    /\ LET reminder == [id |-> now, type |-> form.activeModal,
                        scheduledTime |->
                            calculateTargetTime(records, form, now)]
       IN /\ reminderList' = <<reminder>> \o reminderList
          /\ remStore' = saveToStorage(<<reminder>> \o getFromStorage(remStore))
    /\ form' = [form EXCEPT !.activeModal = "none"]
    /\ RemFormFrame

RemFormNext ==
    \/ \E type \in ReminderTypes : handleOpenModal(type)
    \/ HoursMinus
    \/ HoursPlus
    \/ \E text \in TypedTexts : HoursTyped(text)
    \/ MinutesMinus
    \/ MinutesPlus
    \/ \E text \in TypedTexts : MinutesTyped(text)
    \/ handleSaveReminderForm

\* principal A on the reminders view of a device without Supabase, the
\* record list holding up to two events
RemFormInit ==
    /\ TimerInit
    /\ configured = FALSE
    /\ user = "A"
    /\ session = "A"
    /\ records \in SeqsUpTo(RemEvents, 2)
    /\ isLoading = FALSE
    /\ feedTable = {}
    /\ feedStore = saveToStorage(records)
    /\ loads = {}
    /\ creates = {}
    /\ updates = {}
    /\ deletes = {}
    /\ nextUuid = 0
    /\ reminderList = <<>>
    /\ remTable = {}
    /\ remStore = NoItem
    /\ remMounted = TRUE
    /\ remLoads = {}
    /\ remCreates = {}
    /\ remDeletes = {}
    /\ rems = 0
    /\ edits = 0
    /\ adds = 0
    /\ ops = 0
    /\ babyName = ""
    /\ birthDate = ""
    /\ profLoading = FALSE
    /\ profTable = {}
    /\ profStore = NoItem
    /\ profLoads = {}
    /\ profSaves = {}
    /\ arg = Null
    /\ res = Null
    /\ form = [activeModal |-> "none", delayHours |-> Some(DiaperDelayHours),
               delayMinutes |-> Some(0)]
    /\ authCalls = <<>>

RemFormSpec == RemFormInit /\ [][RemFormNext]_vars

\* the start timestamps of the events a reminder of the type is based on
BaseTimes(type) ==
    {records[i].startTime : i \in {j \in 1..Len(records) :
         \/ type = "feed" /\ records[j].type \in {"breast", "bottle"}
         \/ type = "diaper" /\ records[j].type = "diaper"}}

\* C24: the scheduled instant of a saved reminder is the latest start
\* timestamp of the relevant events ('now' without one) plus the offset hours
\* and minutes; both offsets are >= 0 whatever was clicked or typed, so the
\* instant is never before the base time.
C24_ScheduledFromLastEvent ==
    /\ [][handleSaveReminderForm =>
            LET base == IF BaseTimes(form.activeModal) = {} THEN now
                        ELSE CHOOSE t \in BaseTimes(form.activeModal) :
                                \A u \in BaseTimes(form.activeModal) : t >= u
                h == IF form.delayHours = Null THEN 0 ELSE form.delayHours[1]
                m == IF form.delayMinutes = Null THEN 0
                     ELSE form.delayMinutes[1]
            IN  /\ reminderList'[1].scheduledTime
                     = base + h * 3600000 + m * 60000
                /\ reminderList'[1].scheduledTime >= base]_vars
    /\ [](/\ form.delayHours # Null => form.delayHours[1] >= 0
          /\ form.delayMinutes # Null => form.delayMinutes[1] >= 0)

\* a feed reminder saved after the minutes were decremented at 0: the list
\* holds a pump event later than the bottle event the instant is based on
C24_Witness ==
    /\ Len(records) = 2
    /\ records[1].type = "pump" /\ records[1].startTime = ClockStep - 1
    /\ records[2].type = "bottle" /\ records[2].startTime = ClockStep - 2
    /\ form.activeModal = "none"
    /\ form.delayMinutes = Some(0)
    /\ ops = 3
    /\ Len(reminderList) = 1
    /\ reminderList[1].type = "feed"
    /\ reminderList[1].scheduledTime
          = (ClockStep - 2) + FeedDelayHours * MsPerHour

\* ------------------------------------------ StatsView: editing a breast feed
\* the edit dialog closed
NoEdit == [editingRecord |-> Null, breastDuration |-> 0, breastSeconds |-> 0]

\* what is typed into the minutes and the seconds input of the dialog
TypedMinutes == {0 - 1, 0, 1}
TypedSeconds == {0 - 5, 0, 30, 60, 125}

\* Math.max(0, Number(e.target.value))
ClampTyped(n) == IF n > 0 THEN n ELSE 0

\* an edit whose minutes are never below 1, as those of a timer save
EditedBreastAtLeastOne(r, d, sec) ==
    LET totalSeconds == d * SecPerMin + sec IN
    [r EXCEPT !.durationMinutes =
                 IF CeilDiv(totalSeconds, SecPerMin) > 1
                 THEN CeilDiv(totalSeconds, SecPerMin) ELSE 1,
              !.durationSeconds = totalSeconds]

\* the updatedRecord of handleSaveEdit for a breast feed (lines 308-315),
\* start time and side left as they were
EditedBreast(r, d, sec) ==
    LET totalSeconds == d * SecPerMin + sec IN
    [r EXCEPT !.durationMinutes =
                 IF CeilDiv(totalSeconds, SecPerMin) > 0
                 THEN CeilDiv(totalSeconds, SecPerMin) ELSE 0,
              !.durationSeconds = totalSeconds]

\* what a step of the edit dialog leaves alone
DialogFrame ==
    /\ TimerStill
    /\ RemIdle
    /\ UNCHANGED profVars
    /\ UNCHANGED <<arg, res, authCalls>>
    /\ UNCHANGED <<now, configured, user, session, isLoading, feedTable,
                   loads, creates, updates, deletes, nextUuid, adds>>

DialogStep ==
    /\ ops < MaxOps
    /\ ops' = ops + 1
    /\ DialogFrame

\* handleEditClick (lines 233-264) on a breast feed
handleEditClick(record) ==
    /\ form.editingRecord = Null
    /\ record.type = "breast"
    /\ DialogStep
    /\ form' = [editingRecord |-> Some(record),
                breastDuration |-> record.durationSeconds \div SecPerMin,
                breastSeconds |-> record.durationSeconds % SecPerMin]
    /\ UNCHANGED <<records, feedStore, edits>>

\* handleBreastTimeChange (lines 324-343)
handleBreastTimeChange(type, delta) ==
    /\ form.editingRecord # Null
    /\ DialogStep
    /\ IF type = "min"
       THEN form' = [form EXCEPT !.breastDuration = ClampTyped(@ + delta)]
       ELSE LET newSec == form.breastSeconds + delta IN
            IF newSec >= SecPerMin
            THEN form' = [form EXCEPT !.breastDuration = @ + 1,
                                      !.breastSeconds = 0]
            ELSE IF newSec < 0
            THEN IF form.breastDuration > 0
                 THEN form' = [form EXCEPT !.breastDuration = @ - 1,
                                           !.breastSeconds = SecPerMin - 1]
                 ELSE form' = [form EXCEPT !.breastSeconds = 0]
            ELSE form' = [form EXCEPT !.breastSeconds = newSec]
    /\ UNCHANGED <<records, feedStore, edits>>

\* onChange of the minutes input (line 827)
setBreastDuration(n) ==
    /\ form.editingRecord # Null
    /\ DialogStep
    /\ form' = [form EXCEPT !.breastDuration = ClampTyped(n)]
    /\ UNCHANGED <<records, feedStore, edits>>

\* onChange of the seconds input (lines 845-848)
setBreastSeconds(n) ==
    /\ form.editingRecord # Null
    /\ DialogStep
    /\ form' = [form EXCEPT !.breastSeconds = ClampTyped(n)]
    /\ UNCHANGED <<records, feedStore, edits>>

\* onBlur of the seconds input (lines 849-854)
BreastSecondsBlur ==
    /\ form.editingRecord # Null
    /\ form.breastSeconds >= SecPerMin
    /\ DialogStep
    /\ form' = [form EXCEPT
                   !.breastDuration = @ + form.breastSeconds \div SecPerMin,
                   !.breastSeconds = @ % SecPerMin]
    /\ UNCHANGED <<records, feedStore, edits>>

\* handleSaveEdit (lines 266-322) for a breast feed on a device without
\* Supabase: updateRecord (App.tsx lines 74-79) with updateFeedRecord
\* (auth.ts lines 293-301), then the dialog closes
handleSaveEdit ==
    /\ form.editingRecord # Null
    /\ ~configured
    /\ DialogStep
    /\ edits' = edits + 1
    /\ LET id == Val(form.editingRecord).id
           updatedRecord == EditedBreast(Val(form.editingRecord),
                                         form.breastDuration, form.breastSeconds)
           stored == getFromStorage(feedStore)
           hit == {i \in 1..Len(stored) : stored[i].id = id}
       IN /\ records' = Replace(records, id, updatedRecord)
          /\ IF hit # {}
             THEN LET index == CHOOSE i \in hit : \A j \in hit : i <= j
                  IN feedStore' = saveToStorage(
                         [stored EXCEPT ![index] = updatedRecord])
             ELSE UNCHANGED feedStore
    /\ form' = NoEdit

BreastNext ==
    \/ Advance
    \/ startTimer
    \/ DisplayTick
    \/ handleSaveTimer
    \/ \E record \in RangeOf(records) : handleEditClick(record)
    \/ \E type \in {"min", "sec"}, delta \in {0 - 1, 1} :
            handleBreastTimeChange(type, delta)
    \/ \E n \in TypedMinutes : setBreastDuration(n)
    \/ \E n \in TypedSeconds : setBreastSeconds(n)
    \/ BreastSecondsBlur
    \/ handleSaveEdit

\* the timer and the history of a signed-in principal, local store
BreastInit ==
    /\ TimerInit
    /\ configured = FALSE
    /\ user = "A"
    /\ session = "A"
    /\ records = <<>>
    /\ isLoading = FALSE
    /\ feedTable = {}
    /\ feedStore = NoItem
    /\ loads = {}
    /\ creates = {}
    /\ updates = {}
    /\ deletes = {}
    /\ nextUuid = 0
    /\ reminderList = <<>>
    /\ remTable = {}
    /\ remStore = NoItem
    /\ remMounted = FALSE
    /\ remLoads = {}
    /\ remCreates = {}
    /\ remDeletes = {}
    /\ rems = 0
    /\ edits = 0
    /\ adds = 0
    /\ ops = 0
    /\ babyName = ""
    /\ birthDate = ""
    /\ profLoading = FALSE
    /\ profTable = {}
    /\ profStore = NoItem
    /\ profLoads = {}
    /\ profSaves = {}
    /\ arg = Null
    /\ res = Null
    /\ form = NoEdit
    /\ authCalls = <<>>

BreastSpec == BreastInit /\ [][BreastNext]_vars

\* C25: every breast feed of the in-memory list has durationMinutes =
\* ceil(durationSeconds / 60), that is, its minutes are the least whole
\* number of minutes that covers its seconds, whatever timer saves and
\* breast edits came before.
C25_MinutesAreCeilOfSeconds ==
    \A i \in 1..Len(records) :
        records[i].type = "breast" =>
            /\ records[i].durationSeconds >= 0
            /\ records[i].durationMinutes * 60 >= records[i].durationSeconds
            /\ (records[i].durationMinutes - 1) * 60 < records[i].durationSeconds

\* a timer save of one second edited to 125 typed seconds
C25_Witness ==
    /\ edits = 1
    /\ Len(records) = 1
    /\ records[1].type = "breast"
    /\ records[1].durationSeconds = 125
    /\ records[1].durationMinutes = 3
    /\ form = NoEdit

\* --------------------------------------------- timer state consistency
\* C26: in every timer state, those constructed from localStorage included,
\* the timer is running exactly when it has a start timestamp, and the
\* accumulated seconds are a natural number; the timer is never running
\* without a start timestamp.
C26_RunningIffStarted ==
    /\ isRunning \in BOOLEAN
    /\ isRunning <=> (startTimestamp # Null)
    /\ pausedSeconds \in Nat
    /\ ~(isRunning /\ startTimestamp = Null)

\* a timer that ran, was paused with a second accumulated, was started
\* again and then constructed again from localStorage
C26_Witness ==
    /\ rehydrated
    /\ isRunning
    /\ startTimestamp # Null
    /\ pausedSeconds = 1

\* ------------------------------------------------- identifiers in memory
\* C27: the identifiers of the in-memory FeedEvent list are pairwise
\* distinct after any creates, updates, deletes and reconciliations, two
\* creates in the same millisecond included.
C27_IdsPairwiseDistinct ==
    \A i, j \in 1..Len(records) : records[i].id = records[j].id => i = j

\* ------------------------------------------- updates of entities in flight
\* C28: when a create resolves with the authoritative row, the one entity
\* that still carries the provisional identifier keeps the fields it holds
\* in memory (those set by an update made meanwhile); only its identifier
\* is replaced.
C28_ReconcileKeepsLaterUpdate ==
    [][\A c \in creates :
          (/\ CreateResolve(c)
           /\ c.stage = "ok"
           /\ Cardinality({i \in 1..Len(records) :
                               records[i].id = c.record.id}) = 1)
          => \A i \in 1..Len(records) :
                 records[i].id = c.record.id =>
                     /\ records'[i].id = Val(c.saved).id
                     /\ records'[i].amountMl = records[i].amountMl
                     /\ records'[i].startTime = records[i].startTime
                     /\ records'[i].note = records[i].note]_vars

\* ------------------------------------------- creates during a load
\* C29: an entity created while a load is in flight (it is in the list when
\* the load resolves, and every entity there was added after the list was
\* cleared at the start of the load) is still in the list after the load
\* has resolved. Created entities carry a note > 0 that tells them apart.
C29_CreateSurvivesLoad ==
    [][\A l \in loads :
          LoadResolve(l) =>
              \A i \in 1..Len(records) :
                  records[i].note > 0 =>
                      \E j \in 1..Len(records') :
                          records'[j].note = records[i].note]_vars

\* ------------------------------------------- memory and the local store
\* C30: on a device without Supabase, with a principal signed in, the load
\* completed and no call in flight, the in-memory list equals the list
\* stored under the local key: same entities, same identifiers, same order.
C30_MemoryEqualsLocalStore ==
    (/\ ~configured
     /\ user # NoUser
     /\ ~isLoading
     /\ loads = {}
     /\ creates = {}
     /\ updates = {}
     /\ deletes = {})
    => records = getFromStorage(feedStore)

====
